---- MODULE Spec2Model ----
(***************************************************************************)
(* draino2: the drain reconciliation engine.                               *)
(*                                                                         *)
(* One node object on the API server (labels, conditions, schedulability   *)
(* flag, annotations), the pods bound to it, and the controller replicas   *)
(* that reconcile it.  A reconcile pass is split at its network calls      *)
(* (Get, Patch, List, Evict): these are the only points where another      *)
(* replica, an external actor or a crash can interleave.                   *)
(***************************************************************************)
EXTENDS Naturals, Sequences, FiniteSets, TLC

VARIABLES
    watchEvent,     \* the watch event the node informer delivered last
    configFile,     \* the rules and settings in the configuration file
    config,         \* types.Config + drainer.DrainerConfig as wired at start-up
    labels,         \* node.Labels on the API server
    conditions,     \* node.Status.Conditions on the API server
    unschedulable,  \* node.Spec.Unschedulable on the API server
    annotations,    \* node.Annotations on the API server
    pods,           \* the pods bound to the node, in listing order
    queue,          \* per replica: the node's key is pending in the work queue
    pass,           \* per replica: the reconcile pass (position, locals, result)
    mayFail,        \* requests to the API server may fail or be refused
    caller          \* a manual caller of the drainer: the REST API, a library user

nodeVars == <<labels, conditions, unschedulable, annotations>>
vars == <<watchEvent, configFile, config, labels, conditions, unschedulable, annotations, pods, queue, pass,
          mayFail, caller>>

(***************************************************************************)
(* Bounds of the model.                                                    *)
(***************************************************************************)
\* Pods bound to the node when two replicas race on it.
RacePods == 1
\* Pods bound to the node when a single replica drains it.
MaxPods == 3

\* Owner references and volumes of a pod given to the candidate filter.
MaxRefs == 2
\* Calls of Cordon/Uncordon a caller makes with one node object.
MaxCalls == 3

(***************************************************************************)
(* Program constants.                                                      *)
(***************************************************************************)
\* RequeueAfter of a pass that finds the node already being drained (seconds).
RequeueDraining == 30
\* RequeueAfter of a pass whose drain failed (5 * time.Minute, in seconds).
RequeueFailure == 300

\* The status codes of the REST API.
StatusOK == 200
StatusNotFound == 404
StatusConflict == 409
StatusInternalServerError == 500

\* A key that a Go map does not hold.
Absent == "<absent>"

\* No watch event was delivered yet.
NoEvent == "none"

\* The controller replicas that may be deployed (helm replicaCount/autoscaling;
\* main creates the manager without leader election).
Replicas == {"r1", "r2"}

\* The annotation keys the engine writes.
InProgressKey   == "draino2.kubernetes.io/drain-in-progress"
StartTimeKey    == "draino2.kubernetes.io/drain-start-time"
DrainedKey      == "draino2.kubernetes.io/drained"
CompleteTimeKey == "draino2.kubernetes.io/drain-complete-time"
ReasonKey       == "draino2.kubernetes.io/drain-reason"
MarkerKeys == {InProgressKey, StartTimeKey, DrainedKey, CompleteTimeKey, ReasonKey}

\* time.Now().UTC().Format(time.RFC3339): the clock is not modelled.
Now == "now"

\* The label keys and values external actors set on the node.
LabelKeys == {"maintenance", "critical"}
LabelValues == {"true"}

NoLabels == [k \in LabelKeys |-> Absent]
NoAnnotations == [k \in MarkerKeys |-> Absent]

(***************************************************************************)
(* Configuration (config/draino2.yaml, types.Config, main's wiring).       *)
(***************************************************************************)
LabelTrigger(k, v) == [Key |-> k, Value |-> v]
NodeCondition(t, s) == [Type |-> t, Status |-> s]

\* The rule lists of config/draino2.yaml, cut to the keys of the model.
DefaultLabelTriggers == <<LabelTrigger("maintenance", "true")>>
DefaultExcludeLabels == <<LabelTrigger("critical", "true")>>
DefaultNodeConditions == <<NodeCondition("DiskPressure", "True")>>

\* drainer.DrainerConfig as main builds it from types.DrainSettings; PodSelector
\* is "nil" in main, "everything" stands for a non-nil labels.Selector.
DrainerConfig(cfg, selector) ==
    [ Force              |-> cfg.EvictUnreplicatedPods,
      IgnoreDaemonSets   |-> ~cfg.EvictDaemonSetPods,
      DeleteEmptyDirData |-> cfg.EvictLocalStoragePods,
      PodSelector        |-> selector ]

Config(skipCordon, evictDS, evictLocal, evictUnrep, selector) ==
    LET settings == [ SkipCordon            |-> skipCordon,
                      EvictDaemonSetPods    |-> evictDS,
                      EvictLocalStoragePods |-> evictLocal,
                      EvictUnreplicatedPods |-> evictUnrep ]
    IN  [ LabelTriggers  |-> DefaultLabelTriggers,
          ExcludeLabels  |-> DefaultExcludeLabels,
          NodeConditions |-> DefaultNodeConditions,
          DrainSettings  |-> settings,
          Drainer        |-> DrainerConfig(settings, selector) ]

(***************************************************************************)
(* The eligibility classifier and the marker reads.                        *)
(***************************************************************************)
Min(S) == CHOOSE x \in S : \A y \in S : x <= y

\* One rule of LabelTriggers/ExcludeLabels against the node's labels.
labelMatches(rule, lbls) ==
    /\ rule.Key \in DOMAIN lbls
    /\ lbls[rule.Key] # Absent
    /\ (rule.Value = "" \/ lbls[rule.Key] = rule.Value)

\* Mutant: of the trigger rules that match, the last one gives the reason.
shouldDrainNode_lastRule(cfg, lbls, conds) ==
    LET hitL == { i \in 1..Len(cfg.LabelTriggers) :
                    labelMatches(cfg.LabelTriggers[i], lbls) }
        last == CHOOSE i \in hitL : \A j \in hitL : j <= i
        k    == cfg.LabelTriggers[last].Key
        hitC == { j \in 1..Len(conds) :
                    /\ conds[j].Status = "True"
                    /\ \E r \in 1..Len(cfg.NodeConditions) :
                          cfg.NodeConditions[r].Type = conds[j].Type }
    IN  IF hitL # {}
        THEN [ ok |-> TRUE, reason |-> "trigger label " \o k \o "=" \o lbls[k] ]
        ELSE IF hitC # {}
        THEN [ ok |-> TRUE,
               reason |-> "condition " \o conds[Min(hitC)].Type \o " is True" ]
        ELSE [ ok |-> FALSE, reason |-> "no drain triggers found" ]

\* shouldDrainNode: trigger labels in configured order, then the node's
\* conditions in the node's order; exclude labels are not consulted.
shouldDrainNode(cfg, lbls, conds) ==
    LET hitL == { i \in 1..Len(cfg.LabelTriggers) :
                    labelMatches(cfg.LabelTriggers[i], lbls) }
        hitC == { j \in 1..Len(conds) :
                    /\ conds[j].Status = "True"
                    /\ \E r \in 1..Len(cfg.NodeConditions) :
                          cfg.NodeConditions[r].Type = conds[j].Type }
    IN  IF hitL # {}
        THEN LET k == cfg.LabelTriggers[Min(hitL)].Key
             IN  [ ok |-> TRUE,
                   reason |-> "trigger label " \o k \o "=" \o lbls[k] ]
        ELSE IF hitC # {}
        THEN [ ok |-> TRUE,
               reason |-> "condition " \o conds[Min(hitC)].Type \o " is True" ]
        ELSE [ ok |-> FALSE, reason |-> "no drain triggers found" ]

\* Mutant: the drain-in-progress marker is not looked at.
isNodeBeingDrained_never(ann) == FALSE

\* Mutant: the check reads the drained annotation instead.
isNodeBeingDrained_wrongKey(ann) == ann[DrainedKey] # Absent

isNodeBeingDrained(ann) == ann[InProgressKey] # Absent

\* Mutant: the drained marker is not looked at.
isNodeDrained_never(ann) == FALSE

\* Mutant: the check reads the in-progress annotation instead.
isNodeDrained_wrongKey(ann) == ann[InProgressKey] # Absent

isNodeDrained(ann) == ann[DrainedKey] # Absent

\* shouldWatchNode: the event filter; the only place exclude labels are read.
shouldWatchNode(cfg, lbls) ==
    ~ \E i \in 1..Len(cfg.ExcludeLabels) : labelMatches(cfg.ExcludeLabels[i], lbls)

(***************************************************************************)
(* Pods and the drainer's candidate filter.                                *)
(***************************************************************************)
Pod(mirror, owners, volumes) ==
    [ mirror |-> mirror, owners |-> owners, volumes |-> volumes, phase |-> "Running" ]

PlainPod        == Pod(FALSE, <<"ReplicaSet">>, <<"persistentVolumeClaim">>)
DaemonSetPod    == Pod(FALSE, <<"DaemonSet">>, <<>>)
LocalStoragePod == Pod(FALSE, <<"ReplicaSet">>, <<"emptyDir">>)
MirrorPod       == Pod(TRUE, <<>>, <<"hostPath">>)

PodTemplates == {PlainPod, DaemonSetPod, LocalStoragePod, MirrorPod}

\* hasLocalStorage: some volume is an emptyDir or a hostPath.
hasLocalStorage(pod) ==
    \E i \in 1..Len(pod.volumes) : pod.volumes[i] \in {"emptyDir", "hostPath"}

\* Mutant: the filter without the check of the deletion timestamp.
shouldEvictPod_noDeletionCheck(dcfg, pod) ==
    IF pod.mirror THEN FALSE
    ELSE IF dcfg.IgnoreDaemonSets
            /\ \E i \in 1..Len(pod.owners) : pod.owners[i] = "DaemonSet" THEN FALSE
    ELSE IF hasLocalStorage(pod) /\ ~dcfg.Force THEN FALSE
    ELSE TRUE

\* Mutant: the filter without the DaemonSet rule.
shouldEvictPod_keepsDaemonSets(dcfg, pod) ==
    IF pod.phase = "Terminating" THEN FALSE
    ELSE IF pod.mirror THEN FALSE
    ELSE IF hasLocalStorage(pod) /\ ~dcfg.Force THEN FALSE
    ELSE TRUE

\* shouldEvictPod: the candidate filter of getPodsOnNode.
shouldEvictPod(dcfg, pod) ==
    IF pod.phase = "Terminating" THEN FALSE          \* DeletionTimestamp != nil
    ELSE IF pod.mirror THEN FALSE
    ELSE IF dcfg.IgnoreDaemonSets
            /\ \E i \in 1..Len(pod.owners) : pod.owners[i] = "DaemonSet" THEN FALSE
    ELSE IF hasLocalStorage(pod) /\ ~dcfg.Force THEN FALSE
    ELSE TRUE

\* Pods(NamespaceAll).List with the node's field selector returns the pods that
\* still exist; getPodsOnNode appends those that pass the filter, in order.
RECURSIVE filterFrom(_, _, _)
filterFrom(dcfg, ps, i) ==
    IF i > Len(ps) THEN <<>>
    ELSE (IF ps[i].phase # "Gone" /\ shouldEvictPod(dcfg, ps[i]) THEN <<i>> ELSE <<>>)
         \o filterFrom(dcfg, ps, i + 1)

\* Mutant: the candidates are gone through a second time.
filteredPods_twice(dcfg, ps) == filterFrom(dcfg, ps, 1) \o filterFrom(dcfg, ps, 1)

\* Mutant: every pod that still exists is a candidate.
filteredPods_unfiltered(dcfg, ps) ==
    SelectSeq([ i \in 1..Len(ps) |-> i ], LAMBDA i : ps[i].phase # "Gone")

filteredPods(dcfg, ps) == filterFrom(dcfg, ps, 1)

(***************************************************************************)
(* Merge patches: client.MergeFrom(node.DeepCopy()) sends the keys that    *)
(* differ between the copy and the modified object, without a              *)
(* resourceVersion precondition; the server applies them to the node as    *)
(* it is now.                                                              *)
(***************************************************************************)
\* Mutant: the whole modified object is sent, not the difference.
mergeFrom_whole(original, modified) == modified

mergeFrom(original, modified) ==
    [ k \in { k \in MarkerKeys : original[k] # modified[k] } |-> modified[k] ]

applyPatch(server, patch) ==
    [ k \in MarkerKeys |-> IF k \in DOMAIN patch THEN patch[k] ELSE server[k] ]

\* The annotations markNodeAsDraining sets on its local node.
drainingAnnotations(ann) ==
    [ ann EXCEPT ![InProgressKey] = "true", ![StartTimeKey] = Now ]

\* Mutant: the drain-in-progress annotation is not deleted.
drainedAnnotations_keepsInProgress(ann, reason) ==
    [ ann EXCEPT ![DrainedKey] = "true",
                 ![CompleteTimeKey] = Now,
                 ![ReasonKey] = reason ]

\* The annotations markNodeAsDrained sets on its local node.
drainedAnnotations(ann, reason) ==
    [ ann EXCEPT ![InProgressKey] = Absent,
                 ![DrainedKey] = "true",
                 ![CompleteTimeKey] = Now,
                 ![ReasonKey] = reason ]

(***************************************************************************)
(* The reconcile pass of one replica.                                      *)
(***************************************************************************)
Nil == "nil"

Result(requeueAfter, err) == [ RequeueAfter |-> requeueAfter, err |-> err ]

\* The counters of metrics.Metrics that drain passes are to feed, as the
\* increments one pass makes.
NoIncrements ==
    [ DrainOperationsStarted   |-> 0,
      DrainOperationsCompleted |-> 0,
      DrainOperationsFailed    |-> 0,
      PodsEvicted              |-> 0,
      PodsFailedToEvict        |-> 0 ]

\* A replica that has not run a pass yet.
IdlePass ==
    [ pc          |-> "idle",
      node        |-> [ annotations |-> NoAnnotations, unschedulable |-> FALSE ],
      excluded    |-> FALSE,     \* the fetched node matched an exclude rule
      eligible    |-> FALSE,     \* shouldDrainNode's verdict
      reason      |-> "",
      observed    |-> "none",    \* marker state of the fetched node
      cands       |-> <<>>,      \* getPodsOnNode's result (indexes into pods)
      idx         |-> 0,         \* position in the eviction loop
      evictedPods |-> 0,
      failedPods  |-> 0,
      outcomes    |-> <<>>,      \* outcome of each eviction request issued
      did         |-> {},        \* the writes this pass issued
      stale       |-> FALSE,     \* markNodeAsDraining patched a node that had
                                 \* changed since this pass fetched it
      ctx         |-> "live",    \* the context Reconcile was called with
      events      |-> <<>>,      \* the audit events this pass recorded
      metrics     |-> NoIncrements,  \* the counter increments of this pass
      result      |-> Result(0, Nil) ]

\* Marker state of a node (spec section 3).
MarkerState(ann) ==
    IF ann[InProgressKey] # Absent THEN "Draining"
    ELSE IF ann[DrainedKey] # Absent THEN "Drained"
    ELSE "Idle"

Running(p) == pass[p].pc \notin {"idle", "returned", "crashed", "panicked"}

\* A worker takes the node's key from the work queue and calls Reconcile.
Dequeue(p) ==
    /\ pass[p].pc \in {"idle", "returned"}
    /\ queue[p]
    /\ queue' = [ queue EXCEPT ![p] = FALSE ]
    /\ pass' = [ pass EXCEPT ![p] = [ IdlePass EXCEPT !.pc = "reconcile" ] ]
    /\ UNCHANGED <<caller, mayFail, watchEvent, configFile, config, labels, conditions, unschedulable, annotations, pods>>

\* The work queue after Reconcile returned: the key is added again on an error
\* (rate limited) and on RequeueAfter > 0.
requeue(r) == r.err # Nil \/ r.RequeueAfter > 0

\* Reconcile returns r from the pass state ps, having recorded the events evs;
\* q tells whether the key was added to the queue again while the pass ran.
return(p, ps, q, r, evs) ==
    /\ pass' = [ pass EXCEPT ![p] = [ ps EXCEPT !.pc = "returned",
                                                !.node = IdlePass.node,
                                                !.excluded = FALSE,
                                                !.reason = "",
                                                !.idx = 0,
                                                !.stale = FALSE,
                                                !.result = r,
                                                !.events = ps.events \o evs ] ]
    /\ queue' = [ queue EXCEPT ![p] = q \/ requeue(r) ]

\* Reconcile, up to its first write: Get the node, classify it, read its
\* markers, and either return or record the drain start.
Reconcile(p) ==
    /\ pass[p].pc = "reconcile"
    /\ UNCHANGED <<caller, mayFail, watchEvent, configFile, config, labels, conditions, unschedulable, annotations, pods>>
    /\ \/ \* r.Get fails with an error other than NotFound
          /\ mayFail
          /\ return(p, IdlePass, queue[p], Result(0, "failed to get node"), <<>>)
       \/ LET d  == shouldDrainNode(config, labels, conditions)
              ps == [ IdlePass EXCEPT
                        !.node     = [ annotations |-> annotations,
                                       unschedulable |-> unschedulable ],
                        !.excluded = ~shouldWatchNode(config, labels),
                        !.eligible = d.ok,
                        !.reason   = d.reason,
                        !.observed = MarkerState(annotations) ]
          IN  IF ~d.ok THEN return(p, ps, queue[p], Result(0, Nil), <<>>)
              ELSE IF isNodeBeingDrained(annotations)
              THEN return(p, ps, queue[p], Result(RequeueDraining, Nil), <<>>)
              ELSE IF isNodeDrained(annotations)
              THEN return(p, ps, queue[p], Result(0, Nil), <<>>)
              ELSE /\ pass' = [ pass EXCEPT ![p] =
                                  [ ps EXCEPT !.pc = "markDraining",
                                              !.events = <<"DrainStarted">>,
                                              !.metrics.DrainOperationsStarted = @ + 1 ] ]
                   /\ UNCHANGED queue

\* Mutant: the error branch returns the error without reporting the failure.
drainFailed_silent(p, ps, err, evs) ==
    return(p, ps, queue[p], Result(RequeueFailure, err), evs)

\* Mutant: the error branch returns without the backoff.
drainFailed_noBackoff(p, ps, err, evs) ==
    return(p, [ ps EXCEPT !.metrics.DrainOperationsFailed = @ + 1 ], queue[p],
           Result(0, err), evs \o <<"DrainFailed">>)

\* Reconcile's error branch after performDrain failed: recordDrainFailure and
\* the fixed backoff.
drainFailed(p, ps, err, evs) ==
    return(p, [ ps EXCEPT !.metrics.DrainOperationsFailed = @ + 1 ], queue[p],
           Result(RequeueFailure, err), evs \o <<"DrainFailed">>)

\* performDrain, step 1: markNodeAsDraining patches the node.
markNodeAsDraining(p) ==
    LET ps    == pass[p]
        local == drainingAnnotations(ps.node.annotations)
        patch == mergeFrom(ps.node.annotations, local)
    IN  /\ ps.pc = "markDraining"
        /\ UNCHANGED <<caller, mayFail, watchEvent, configFile, config, labels, conditions, unschedulable, pods>>
        /\ \/ \* the Patch succeeds; the response refreshes the local node
              /\ annotations' = applyPatch(annotations, patch)
              /\ pass' = [ pass EXCEPT ![p] =
                             [ ps EXCEPT !.pc = "cordon",
                                         !.node = [ annotations |-> annotations',
                                                    unschedulable |-> unschedulable ],
                                         !.stale = (annotations # ps.node.annotations),
                                         !.did = ps.did \cup {"markDraining"} ] ]
              /\ UNCHANGED queue
           \/ \* the Patch fails
              /\ mayFail
              /\ UNCHANGED annotations
              /\ drainFailed(p, [ ps EXCEPT !.node.annotations = local ],
                             "failed to mark node as draining", <<>>)

\* Mutant: performDrain goes on to Drain without calling Cordon.
Cordon_never(p) ==
    /\ pass[p].pc = "cordon"
    /\ pass' = [ pass EXCEPT ![p].pc = "drain" ]
    /\ UNCHANGED <<caller, mayFail, watchEvent, configFile, config, labels, conditions,
                   unschedulable, annotations, pods, queue>>

\* Mutant: Cordon is called whether or not SkipCordon is set.
Cordon_ignoresSkip(p) ==
    LET ps == pass[p]
    IN  /\ ps.pc = "cordon"
        /\ UNCHANGED <<caller, mayFail, watchEvent, configFile, config, labels, conditions, annotations, pods>>
        /\ IF ps.node.unschedulable
           THEN /\ pass' = [ pass EXCEPT ![p].pc = "drain" ]
                /\ UNCHANGED <<unschedulable, queue>>
           ELSE /\ unschedulable' = TRUE
                /\ pass' = [ pass EXCEPT ![p] =
                               [ ps EXCEPT !.pc = "drain",
                                           !.did = ps.did \cup {"cordon"},
                                           !.events = ps.events \o <<"Cordoned">> ] ]
                /\ UNCHANGED queue

\* performDrain, step 2: Cordon, unless SkipCordon.
Cordon(p) ==
    LET ps == pass[p]
    IN  /\ ps.pc = "cordon"
        /\ UNCHANGED <<caller, mayFail, watchEvent, configFile, config, labels, conditions, annotations, pods>>
        /\ IF config.DrainSettings.SkipCordon \/ ps.node.unschedulable
           THEN /\ pass' = [ pass EXCEPT ![p].pc = "drain" ]
                /\ UNCHANGED <<unschedulable, queue>>
           ELSE \/ \* the strategic merge patch succeeds
                   /\ unschedulable' = TRUE
                   /\ pass' = [ pass EXCEPT ![p] =
                                  [ ps EXCEPT !.pc = "drain",
                                              !.did = ps.did \cup {"cordon"},
                                              !.events = ps.events \o <<"Cordoned">> ] ]
                   /\ UNCHANGED queue
                \/ \* the patch fails
                   /\ mayFail
                   /\ UNCHANGED unschedulable
                   /\ drainFailed(p, ps, "failed to cordon node", <<"CordonFailed">>)

\* The end of Drain's eviction loop: the drainer's own event, then
\* performDrain goes on to markNodeAsDrained, for Drain returned nil.
drainReturnsNil(ps) ==
    [ ps EXCEPT !.pc = "markDrained",
                !.events = ps.events \o
                    (IF ps.failedPods > 0 THEN <<"DrainIncomplete">>
                                          ELSE <<"DrainCompleted">>) ]

\* performDrain, step 3: Drain calls getPodsOnNode.
getPodsOnNode(p) ==
    LET ps == pass[p]
        found == filteredPods(config.Drainer, pods)
    IN  /\ ps.pc = "drain"
        /\ UNCHANGED <<caller, mayFail, watchEvent, configFile, config, labels, conditions, unschedulable, annotations, pods>>
        /\ IF config.Drainer.PodSelector = "nil"
           THEN \* d.config.PodSelector.String() on a nil interface
                /\ pass' = [ pass EXCEPT ![p].pc = "panicked" ]
                /\ queue' = [ queue EXCEPT ![p] = FALSE ]
           ELSE \/ \* the List fails
                   /\ mayFail
                   /\ drainFailed(p, ps, "failed to drain node", <<>>)
                \/ \* the List succeeds
                   /\ pass' = [ pass EXCEPT ![p] =
                                  IF Len(found) = 0
                                  THEN [ ps EXCEPT !.pc = "markDrained" ]
                                  ELSE [ ps EXCEPT !.pc = "evict",
                                                   !.cands = found,
                                                   !.idx = 1 ] ]
                   /\ UNCHANGED queue

\* Mutant: the loop goes on after a failed eviction in every mode.
failFast_never(dcfg) == FALSE

\* Drain's loop returns at the first failed eviction unless Force is set.
failFast(dcfg) == ~dcfg.Force

\* The outcome that each answer of the eviction API stands for: evictPod tells
\* apart success, not-found and any other error.
Outcome(answer) ==
    CASE answer = "ok"       -> "Evicted"
      [] answer = "notFound" -> "AlreadyGone"
      [] answer = "error"    -> "Failed"

\* Mutant: a not-found answer is returned as an error like any other.
evictPodErr_notFoundIsError(answer) ==
    IF answer = "ok" THEN Nil ELSE "failed to evict pod"

\* What evictPod returns for an answer of EvictV1: nil when the request
\* succeeded or the pod was not found, the wrapped error otherwise.
evictPodErr(answer) ==
    IF answer = "ok" \/ answer = "notFound" THEN Nil ELSE "failed to evict pod"

\* One iteration of Drain's loop: evictPod for the next candidate.
evictPod(p) ==
    LET ps == pass[p]
        i  == ps.cands[ps.idx]
        last == ps.idx = Len(ps.cands)
        next(s) == IF last THEN drainReturnsNil(s) ELSE [ s EXCEPT !.idx = ps.idx + 1 ]
        counted(answer) ==
            [ ps EXCEPT !.outcomes = Append(ps.outcomes, Outcome(answer)),
                        !.did = ps.did \cup {"evict"},
                        !.evictedPods = IF evictPodErr(answer) = Nil THEN @ + 1 ELSE @,
                        !.failedPods  = IF evictPodErr(answer) = Nil THEN @ ELSE @ + 1 ]
        loop(answer) ==
            IF evictPodErr(answer) # Nil /\ failFast(config.Drainer)
            THEN drainFailed(p, counted(answer), "failed to drain node", <<>>)
            ELSE /\ pass' = [ pass EXCEPT ![p] = next(counted(answer)) ]
                 /\ UNCHANGED queue
    IN  /\ ps.pc = "evict"
        /\ UNCHANGED <<caller, mayFail, watchEvent, configFile, config, labels, conditions, unschedulable, annotations>>
        /\ \/ \* EvictV1 answers not-found
              /\ ps.ctx = "live"
              /\ pods[i].phase = "Gone"
              /\ UNCHANGED pods
              /\ loop("notFound")
           \/ \* EvictV1 succeeds: the pod gets its deletion timestamp
              /\ ps.ctx = "live"
              /\ pods[i].phase # "Gone"
              /\ pods' = [ pods EXCEPT ![i].phase = "Terminating" ]
              /\ loop("ok")
           \/ \* EvictV1 fails with another error (disruption budget, network),
              \* or returns the context's error without sending the request
              /\ mayFail \/ ps.ctx = "cancelled"
              /\ UNCHANGED pods
              /\ loop("error")

\* performDrain, step 4: markNodeAsDrained patches the node; Reconcile returns.
markNodeAsDrained(p) ==
    LET ps    == pass[p]
        local == drainedAnnotations(ps.node.annotations, ps.reason)
        patch == mergeFrom(ps.node.annotations, local)
        after == [ ps EXCEPT !.node.annotations = local ]
    IN  /\ ps.pc = "markDrained"
        /\ UNCHANGED <<caller, mayFail, watchEvent, configFile, config, labels, conditions, unschedulable, pods>>
        /\ \/ \* the Patch succeeds: recordDrainSuccess
              /\ annotations' = applyPatch(annotations, patch)
              /\ return(p, [ after EXCEPT !.did = ps.did \cup {"markDrained"},
                                          !.metrics.DrainOperationsCompleted = @ + 1 ],
                        queue[p], Result(0, Nil), <<"DrainCompleted">>)
           \/ \* the Patch fails
              /\ mayFail
              /\ UNCHANGED annotations
              /\ drainFailed(p, after, "failed to mark node as drained", <<>>)

(***************************************************************************)
(* The environment: external actors, the watch, crashes.                   *)
(***************************************************************************)
\* The update event filter of SetupWithManager, for a change of labels or
\* conditions: every live replica adds the key if shouldWatchNode(newNode).
enqueueOnUpdate(newLabels) ==
    queue' = [ p \in DOMAIN queue |->
                 queue[p] \/ ( pass[p].pc \notin {"crashed", "panicked"}
                               /\ shouldWatchNode(config, newLabels) ) ]

\* An external actor sets or removes a label of the node.
SetLabel(k, v) ==
    /\ labels[k] # v
    /\ labels' = [ labels EXCEPT ![k] = v ]
    /\ enqueueOnUpdate(labels')
    /\ UNCHANGED <<caller, mayFail, watchEvent, configFile, config, conditions, unschedulable, annotations, pods, pass>>

\* The kubelet reports a new status of the node's condition.
SetCondition(s) ==
    /\ conditions[1].Status # s
    /\ conditions' = [ conditions EXCEPT ![1].Status = s ]
    /\ enqueueOnUpdate(labels)
    /\ UNCHANGED <<caller, mayFail, watchEvent, configFile, config, labels, unschedulable, annotations, pods, pass>>

\* Somebody else deletes a pod: it gets its deletion timestamp.
PodDelete(i) ==
    /\ pods[i].phase = "Running"
    /\ pods' = [ pods EXCEPT ![i].phase = "Terminating" ]
    /\ UNCHANGED <<caller, mayFail, watchEvent, configFile, config, labels, conditions, unschedulable, annotations, queue, pass>>

\* A terminating pod is gone.
PodGone(i) ==
    /\ pods[i].phase = "Terminating"
    /\ pods' = [ pods EXCEPT ![i].phase = "Gone" ]
    /\ UNCHANGED <<caller, mayFail, watchEvent, configFile, config, labels, conditions, unschedulable, annotations, queue, pass>>

\* The context of a pass is cancelled (the manager shuts down) while Drain is
\* in its eviction loop.  Drain and evictPod never read ctx themselves; the
\* client returns ctx.Err() for a request made with a cancelled context.
Cancel(p) ==
    /\ pass[p].pc = "evict"
    /\ pass[p].ctx = "live"
    /\ pass' = [ pass EXCEPT ![p].ctx = "cancelled" ]
    /\ UNCHANGED <<caller, mayFail, watchEvent, configFile, config, labels, conditions, unschedulable, annotations, pods,
                   queue>>

\* The process of a replica dies in the middle of a drain, between two network
\* calls after markNodeAsDraining.  (Before that the pass has written nothing,
\* and the replica that starts again finds the node as it was.)
Crash(p) ==
    /\ Running(p)
    /\ "markDraining" \in pass[p].did
    /\ pass' = [ pass EXCEPT ![p].pc = "crashed" ]
    /\ queue' = [ queue EXCEPT ![p] = FALSE ]
    /\ UNCHANGED <<caller, mayFail, watchEvent, configFile, config, labels, conditions, unschedulable, annotations, pods>>

\* The replica starts again: the informer's initial list delivers a create
\* event, filtered by shouldWatchNode.
Restart(p) ==
    /\ pass[p].pc \in {"crashed", "panicked"}
    /\ pass' = [ pass EXCEPT ![p] = IdlePass ]
    /\ queue' = [ queue EXCEPT ![p] = shouldWatchNode(config, labels) ]
    /\ UNCHANGED <<caller, mayFail, watchEvent, configFile, config, labels, conditions, unschedulable, annotations, pods>>

(***************************************************************************)
(* Manual callers: the drainer called directly, and the REST API.          *)
(***************************************************************************)
\* The one node of the cluster, and the names a request may carry.
NodeName == "node-1"
NodeNames == {NodeName, "no-such-node"}

\* The node object a caller holds (from its last Get).
NoNode == [ held |-> FALSE, unschedulable |-> FALSE ]
HeldNode(flag) == [ held |-> TRUE, unschedulable |-> flag ]

\* The response of the REST API to a request: engine tells whether a drainer
\* operation was invoked, draining whether the fetched node carried
\* drain-in-progress, requests and failed count the eviction requests made
\* and failed; aborted: the handler panicked and no response was written.
Response(op, name, status, engine, draining, requests, failed) ==
    [ op |-> op, name |-> name, status |-> status, aborted |-> FALSE,
      engine |-> engine, draining |-> draining,
      requests |-> requests, failed |-> failed ]

NoResponse == Response("none", "", 0, FALSE, FALSE, 0, 0)

\* The request a REST handler is serving, between two of its network calls:
\* pc is the call it makes next, node the object its Get returned, draining
\* whether that object carried drain-in-progress; cands, idx and failed are
\* the locals of Drain's loop.
NoHandler ==
    [ pc |-> "idle", op |-> "none", name |-> "", node |-> NoNode,
      draining |-> FALSE, cands |-> <<>>, idx |-> 0, failed |-> 0 ]

IdleCaller ==
    [ node |-> NoNode, calls |-> <<>>, http |-> NoResponse, handler |-> NoHandler ]

\* What one call of Cordon or Uncordon did: patch tells whether a Patch
\* request was made, event is the audit event recorded, err the error returned.
CallResult(op, patch, event, err) ==
    [ op |-> op, patch |-> patch, event |-> event, err |-> err ]

\* Mutant: Cordon without the check of the node's flag.
alreadyCordoned_never(node) == FALSE

\* Cordon's and Uncordon's early return, on the node object they are given.
alreadyCordoned(node) == node.unschedulable

alreadyUncordoned(node) == ~node.unschedulable

\* Drainer.Cordon(ctx, node); ok tells whether the Patch request succeeds.
\* The node object is not written to.
cordonCall(node, ok) ==
    IF alreadyCordoned(node) THEN CallResult("Cordon", FALSE, "none", Nil)
    ELSE IF ok THEN CallResult("Cordon", TRUE, "Cordoned", Nil)
    ELSE CallResult("Cordon", TRUE, "CordonFailed", "failed to cordon node")

\* Drainer.Uncordon(ctx, node).
uncordonCall(node, ok) ==
    IF alreadyUncordoned(node) THEN CallResult("Uncordon", FALSE, "none", Nil)
    ELSE IF ok THEN CallResult("Uncordon", TRUE, "Uncordoned", Nil)
    ELSE CallResult("Uncordon", TRUE, "UncordonFailed", "failed to uncordon node")

\* spec.unschedulable on the server after a call with result r.
flagAfter(r) ==
    IF r.patch /\ r.err = Nil THEN r.op = "Cordon" ELSE unschedulable

\* The outcomes a request to the API server can have.
Oks == IF mayFail THEN {TRUE, FALSE} ELSE {TRUE}

\* A library caller fetches the node.
CallerGet ==
    /\ caller' = [ caller EXCEPT !.node = HeldNode(unschedulable), !.calls = <<>> ]
    /\ UNCHANGED <<mayFail, watchEvent, configFile, config, labels, conditions, unschedulable, annotations, pods,
                   queue, pass>>

\* The caller calls Cordon with the node object it holds.
CallCordon ==
    /\ caller.node.held
    /\ Len(caller.calls) < MaxCalls
    /\ \E ok \in Oks :
          LET r == cordonCall(caller.node, ok)
          IN  /\ caller' = [ caller EXCEPT !.calls = Append(@, r) ]
              /\ unschedulable' = flagAfter(r)
    /\ UNCHANGED <<mayFail, watchEvent, configFile, config, labels, conditions, annotations, pods, queue, pass>>

\* The caller calls Uncordon with the node object it holds.
CallUncordon ==
    /\ caller.node.held
    /\ Len(caller.calls) < MaxCalls
    /\ \E ok \in Oks :
          LET r == uncordonCall(caller.node, ok)
          IN  /\ caller' = [ caller EXCEPT !.calls = Append(@, r) ]
              /\ unschedulable' = flagAfter(r)
    /\ UNCHANGED <<mayFail, watchEvent, configFile, config, labels, conditions, annotations, pods, queue, pass>>

\* Somebody else (kubectl cordon/uncordon) sets the node's flag.
ExternalCordon(flag) ==
    /\ unschedulable # flag
    /\ unschedulable' = flag
    /\ UNCHANGED <<caller, mayFail, watchEvent, configFile, config, labels, conditions, annotations, pods, queue,
                   pass>>

\* The process that serves the REST API is up.
alive == \A p \in DOMAIN pass : pass[p].pc \notin {"crashed", "panicked"}

\* The handler writes its response and returns.
respond(r) ==
    caller' = [ caller EXCEPT !.http = r, !.handler = NoHandler ]

\* The handler of request op for node name is about to make the call pc.
serving(op, name, pc) ==
    /\ caller.handler.pc = pc
    /\ caller.handler.op = op
    /\ caller.handler.name = name

\* The handler's Get returned the node: it goes on to the call pc with it.
gotNode(op, name, pc) ==
    caller' = [ caller EXCEPT
                  !.http = NoResponse,
                  !.handler = [ NoHandler EXCEPT
                                  !.pc = pc, !.op = op, !.name = name,
                                  !.node = HeldNode(unschedulable),
                                  !.draining = isNodeBeingDrained(annotations) ] ]

\* The REST handlers' Get of the node: not found, or another error (which the
\* Get can return for any name, whether or not the node exists).
nodeNotFound(op, name) ==
    /\ name # NodeName
    /\ respond(Response(op, name, StatusNotFound, FALSE, FALSE, 0, 0))

getNodeFailed(op, name) ==
    /\ mayFail
    /\ respond(Response(op, name, StatusInternalServerError, FALSE,
                        name = NodeName /\ isNodeBeingDrained(annotations), 0, 0))

\* The response of cordonNode and uncordonNode after the drainer's call r.
flagResponse(op, name, draining, r) ==
    Response(op, name,
             IF r.err = Nil THEN StatusOK ELSE StatusInternalServerError,
             TRUE, draining, 0, IF r.err = Nil THEN 0 ELSE 1)

\* Server.cordonNode, one network call at a time: Get the node (Cordon returns
\* at once for a node fetched unschedulable), then Cordon's Patch.
cordonNode(name) ==
    /\ alive
    /\ UNCHANGED <<mayFail, watchEvent, configFile, config, labels, conditions, annotations, pods, queue, pass>>
    /\ \/ /\ caller.handler.pc = "idle"
          /\ UNCHANGED unschedulable
          /\ \/ nodeNotFound("cordon", name)
             \/ getNodeFailed("cordon", name)
             \/ /\ name = NodeName
                /\ IF alreadyCordoned(HeldNode(unschedulable))
                   THEN respond(flagResponse("cordon", name,
                                   isNodeBeingDrained(annotations),
                                   cordonCall(HeldNode(unschedulable), TRUE)))
                   ELSE gotNode("cordon", name, "patch")
       \/ /\ serving("cordon", name, "patch")
          /\ \E ok \in Oks :
                LET r == cordonCall(caller.handler.node, ok)
                IN  /\ unschedulable' = flagAfter(r)
                    /\ respond(flagResponse("cordon", name,
                                            caller.handler.draining, r))

\* Server.uncordonNode, one network call at a time: Get the node (Uncordon
\* returns at once for a node fetched schedulable), then Uncordon's Patch.
uncordonNode(name) ==
    /\ alive
    /\ UNCHANGED <<mayFail, watchEvent, configFile, config, labels, conditions, annotations, pods, queue, pass>>
    /\ \/ /\ caller.handler.pc = "idle"
          /\ UNCHANGED unschedulable
          /\ \/ nodeNotFound("uncordon", name)
             \/ getNodeFailed("uncordon", name)
             \/ /\ name = NodeName
                /\ IF alreadyUncordoned(HeldNode(unschedulable))
                   THEN respond(flagResponse("uncordon", name,
                                   isNodeBeingDrained(annotations),
                                   uncordonCall(HeldNode(unschedulable), TRUE)))
                   ELSE gotNode("uncordon", name, "patch")
       \/ /\ serving("uncordon", name, "patch")
          /\ \E ok \in Oks :
                LET r == uncordonCall(caller.handler.node, ok)
                IN  /\ unschedulable' = flagAfter(r)
                    /\ respond(flagResponse("uncordon", name,
                                            caller.handler.draining, r))

\* Mutant: the handler cordons the node when it has fetched it.
drainNode_cordons(name) ==
    /\ alive
    /\ caller.handler.pc = "idle"
    /\ name = NodeName
    /\ unschedulable' = TRUE
    /\ gotNode("drain", name, "list")
    /\ UNCHANGED <<mayFail, watchEvent, configFile, config, labels, conditions, annotations,
                   pods, queue, pass>>

\* Server.drainNode, one network call at a time: Get the node and refuse if it
\* is being drained; then Drain's List; then one EvictV1 for each candidate.
drainNode(name) ==
    LET h == caller.handler
    IN  /\ alive
        /\ UNCHANGED <<mayFail, watchEvent, configFile, config, labels, conditions, unschedulable, annotations,
                       queue, pass>>
        /\ \/ \* the Get, and the check of drain-in-progress on what it returned
              /\ h.pc = "idle"
              /\ UNCHANGED pods
              /\ \/ nodeNotFound("drain", name)
                 \/ getNodeFailed("drain", name)
                 \/ /\ name = NodeName
                    /\ IF isNodeBeingDrained(annotations)
                       THEN respond(Response("drain", name, StatusConflict,
                                             FALSE, TRUE, 0, 0))
                       ELSE gotNode("drain", name, "list")
           \/ \* Drain calls getPodsOnNode
              /\ serving("drain", name, "list")
              /\ UNCHANGED pods
              /\ IF config.Drainer.PodSelector = "nil"
                 THEN \* getPodsOnNode panics; net/http drops the connection
                      respond([ Response("drain", name, 0, TRUE, FALSE, 0, 0)
                                  EXCEPT !.aborted = TRUE ])
                 ELSE \/ \* the List fails
                         /\ mayFail
                         /\ respond(Response("drain", name, StatusInternalServerError,
                                             TRUE, FALSE, 0, 1))
                      \/ \* the List succeeds
                         LET found == filteredPods(config.Drainer, pods)
                         IN  IF Len(found) = 0
                             THEN respond(Response("drain", name, StatusOK,
                                                   TRUE, FALSE, 0, 0))
                             ELSE caller' = [ caller EXCEPT
                                                !.handler.pc = "evict",
                                                !.handler.cands = found,
                                                !.handler.idx = 1 ]
           \/ \* one iteration of Drain's loop
              /\ serving("drain", name, "evict")
              /\ LET i == h.cands[h.idx]
                     loop(answer) ==
                         LET failed == IF evictPodErr(answer) = Nil
                                       THEN h.failed ELSE h.failed + 1
                         IN  IF evictPodErr(answer) # Nil /\ failFast(config.Drainer)
                             THEN respond(Response("drain", name,
                                                   StatusInternalServerError,
                                                   TRUE, FALSE, h.idx, failed))
                             ELSE IF h.idx = Len(h.cands)
                             THEN respond(Response("drain", name, StatusOK,
                                                   TRUE, FALSE, h.idx, failed))
                             ELSE caller' = [ caller EXCEPT
                                                !.handler.idx = h.idx + 1,
                                                !.handler.failed = failed ]
                 IN  \/ \* EvictV1 answers not-found
                        /\ pods[i].phase = "Gone"
                        /\ UNCHANGED pods
                        /\ loop("notFound")
                     \/ \* EvictV1 succeeds: the pod gets its deletion timestamp
                        /\ pods[i].phase # "Gone"
                        /\ pods' = [ pods EXCEPT ![i].phase = "Terminating" ]
                        /\ loop("ok")
                     \/ \* EvictV1 fails with another error
                        /\ mayFail
                        /\ UNCHANGED pods
                        /\ loop("error")

(***************************************************************************)
(* Specifications.                                                         *)
(***************************************************************************)
RECURSIVE SeqsUpTo(_, _)
SeqsUpTo(S, n) ==
    IF n = 0 THEN {<<>>}
    ELSE LET shorter == SeqsUpTo(S, n - 1)
         IN  shorter \cup { Append(s, x) : s \in shorter, x \in S }

\* A node that was just created, with nothing on it but its pods.
InitNode ==
    /\ labels = NoLabels
    /\ conditions = <<NodeCondition("DiskPressure", "False")>>
    /\ unschedulable = FALSE
    /\ annotations = NoAnnotations

\* The steps of a reconcile pass of replica p.
PassStep(p) ==
    \/ Dequeue(p)
    \/ Reconcile(p)
    \/ markNodeAsDraining(p)
    \/ Cordon(p)
    \/ getPodsOnNode(p)
    \/ evictPod(p)
    \/ markNodeAsDrained(p)

\* Spec: two replicas reconcile a new node while external actors edit its
\* labels and conditions; fail-fast mode, with and without cordon, with the
\* pod selector main wires (nil) and with a selector that is set.
Init ==
    /\ InitNode
    /\ config \in { Config(skip, FALSE, FALSE, FALSE, sel) :
                      skip \in BOOLEAN, sel \in {"nil", "everything"} }
    /\ pods \in SeqsUpTo({PlainPod}, RacePods)
    /\ pass = [ p \in Replicas |-> IdlePass ]
    /\ queue = [ p \in Replicas |-> TRUE ]
    /\ mayFail = TRUE
    /\ configFile = config
    /\ watchEvent = NoEvent
    /\ caller = IdleCaller

Next ==
    \/ \E p \in DOMAIN pass : Dequeue(p)
    \/ \E p \in DOMAIN pass : Reconcile(p)
    \/ \E p \in DOMAIN pass : markNodeAsDraining(p)
    \/ \E p \in DOMAIN pass : Cordon(p)
    \/ \E p \in DOMAIN pass : getPodsOnNode(p)
    \/ \E p \in DOMAIN pass : evictPod(p)
    \/ \E p \in DOMAIN pass : markNodeAsDrained(p)
    \/ \E p \in DOMAIN pass : Restart(p)
    \/ \E k \in LabelKeys, v \in LabelValues \cup {Absent} : SetLabel(k, v)
    \/ \E s \in {"True", "False"} : SetCondition(s)
    \/ \E i \in 1..Len(pods) : PodGone(i)

Spec == Init /\ [][Next]_vars

\* The pod lists a single replica drains: every list of plain, DaemonSet and
\* local-storage pods, and the lists headed by a static (mirror) pod.
DrainPodLists ==
    SeqsUpTo({PlainPod, DaemonSetPod, LocalStoragePod}, MaxPods)
        \cup { <<MirrorPod>> \o s : s \in SeqsUpTo({PlainPod}, MaxPods - 1) }

\* DrainSpec: one replica drains a node that carries the trigger label, in
\* forced and in fail-fast mode, while pods are deleted under it.
InitTriggered ==
    /\ labels = [ NoLabels EXCEPT !["maintenance"] = "true" ]
    /\ conditions = <<NodeCondition("DiskPressure", "False")>>
    /\ unschedulable = FALSE
    /\ annotations = NoAnnotations
    /\ config \in { Config(FALSE, evictDS, FALSE, force, "everything") :
                      evictDS \in BOOLEAN, force \in BOOLEAN }
    /\ pods \in DrainPodLists
    /\ pass = [ p \in {"r1"} |-> IdlePass ]
    /\ queue = [ p \in {"r1"} |-> TRUE ]
    /\ caller = IdleCaller

InitDrain == InitTriggered /\ mayFail = TRUE /\ configFile = config /\ watchEvent = NoEvent

NextDrain ==
    \/ \E p \in DOMAIN pass : Dequeue(p)
    \/ \E p \in DOMAIN pass : Reconcile(p)
    \/ \E p \in DOMAIN pass : markNodeAsDraining(p)
    \/ \E p \in DOMAIN pass : Cordon(p)
    \/ \E p \in DOMAIN pass : getPodsOnNode(p)
    \/ \E p \in DOMAIN pass : evictPod(p)
    \/ \E p \in DOMAIN pass : markNodeAsDrained(p)
    \/ \E i \in 1..Len(pods) : PodDelete(i)
    \/ \E i \in 1..Len(pods) : PodGone(i)

DrainSpec == InitDrain /\ [][NextDrain]_vars

\* FilterSpec: one replica drains a node with a single pod, for every pod the
\* candidate filter tells apart and every setting of the drainer.
OwnerKinds == {"ReplicaSet", "DaemonSet"}
VolumeKinds == {"emptyDir", "hostPath", "persistentVolumeClaim"}

AllPods ==
    { Pod(m, o, v) : m \in BOOLEAN,
                     o \in SeqsUpTo(OwnerKinds, MaxRefs),
                     v \in SeqsUpTo(VolumeKinds, MaxRefs) }

InitFilter ==
    /\ labels = [ NoLabels EXCEPT !["maintenance"] = "true" ]
    /\ conditions = <<NodeCondition("DiskPressure", "False")>>
    /\ unschedulable = FALSE
    /\ annotations = NoAnnotations
    /\ config \in { Config(FALSE, evictDS, evictLocal, force, "everything") :
                      evictDS \in BOOLEAN, evictLocal \in BOOLEAN, force \in BOOLEAN }
    /\ pods \in { <<pod>> : pod \in AllPods }
    /\ pass = [ p \in {"r1"} |-> IdlePass ]
    /\ queue = [ p \in {"r1"} |-> TRUE ]
    /\ caller = IdleCaller
    /\ mayFail = TRUE
    /\ configFile = config
    /\ watchEvent = NoEvent

FilterSpec == InitFilter /\ [][NextDrain]_vars

\* CancelSpec: DrainSpec, and the context of the pass may be cancelled during
\* the eviction loop.
NextCancel ==
    \/ NextDrain
    \/ \E p \in DOMAIN pass : Cancel(p)

CancelSpec == InitDrain /\ [][NextCancel]_vars

\* CallerSpec: a caller of the drainer fetches the node and calls Cordon and
\* Uncordon with the object it holds, while somebody else may set the flag.
InitCaller ==
    /\ InitNode
    /\ config = Config(FALSE, FALSE, FALSE, FALSE, "nil")
    /\ pods = <<>>
    /\ pass = [ p \in {"r1"} |-> IdlePass ]
    /\ queue = [ p \in {"r1"} |-> FALSE ]
    /\ mayFail = TRUE
    /\ configFile = config
    /\ watchEvent = NoEvent
    /\ caller = IdleCaller

NextCaller ==
    \/ CallerGet
    \/ CallCordon
    \/ CallUncordon
    \/ \E flag \in BOOLEAN : ExternalCordon(flag)

CallerSpec == InitCaller /\ [][NextCaller]_vars

\* ApiSpec: the REST API serves manual requests, one at a time, while the
\* replica of the same process reconciles the node and another client sets
\* the node's flag; each handler stops before each request it makes.
InitApi ==
    /\ labels = [ NoLabels EXCEPT !["maintenance"] = "true" ]
    /\ conditions = <<NodeCondition("DiskPressure", "False")>>
    /\ unschedulable = FALSE
    /\ annotations = NoAnnotations
    /\ config \in { Config(FALSE, FALSE, FALSE, force, sel) :
                      force \in BOOLEAN, sel \in {"nil", "everything"} }
    /\ pods \in SeqsUpTo({PlainPod}, MaxPods - 1)
    /\ pass = [ p \in {"r1"} |-> IdlePass ]
    /\ queue = [ p \in {"r1"} |-> TRUE ]
    /\ mayFail = TRUE
    /\ configFile = config
    /\ watchEvent = NoEvent
    /\ caller = IdleCaller

NextApi ==
    \/ \E p \in DOMAIN pass : Dequeue(p)
    \/ \E p \in DOMAIN pass : Reconcile(p)
    \/ \E p \in DOMAIN pass : markNodeAsDraining(p)
    \/ \E p \in DOMAIN pass : Cordon(p)
    \/ \E p \in DOMAIN pass : getPodsOnNode(p)
    \/ \E p \in DOMAIN pass : evictPod(p)
    \/ \E p \in DOMAIN pass : markNodeAsDrained(p)
    \/ \E i \in 1..Len(pods) : PodGone(i)
    \/ \E name \in NodeNames : drainNode(name)
    \/ \E name \in NodeNames : cordonNode(name)
    \/ \E name \in NodeNames : uncordonNode(name)
    \/ \E flag \in BOOLEAN : ExternalCordon(flag)

ApiSpec == InitApi /\ [][NextApi]_vars

\* FairSpec: the single replica may die between two network calls of a pass;
\* apart from that nothing goes wrong: no request fails and nobody else
\* deletes a pod.  The scheduling is what the work queue and the deployment
\* give: a queued key is reconciled, a pass that has started goes on, and a
\* dead process is started again.
InitFair == InitTriggered /\ mayFail = FALSE /\ configFile = config /\ watchEvent = NoEvent

NextFair ==
    \/ \E p \in DOMAIN pass : Dequeue(p)
    \/ \E p \in DOMAIN pass : Reconcile(p)
    \/ \E p \in DOMAIN pass : markNodeAsDraining(p)
    \/ \E p \in DOMAIN pass : Cordon(p)
    \/ \E p \in DOMAIN pass : getPodsOnNode(p)
    \/ \E p \in DOMAIN pass : evictPod(p)
    \/ \E p \in DOMAIN pass : markNodeAsDrained(p)
    \/ \E p \in DOMAIN pass : Crash(p)
    \/ \E p \in DOMAIN pass : Restart(p)
    \/ \E i \in 1..Len(pods) : PodGone(i)

FairSpec ==
    /\ InitFair
    /\ [][NextFair]_vars
    /\ WF_vars(\E p \in DOMAIN pass : PassStep(p))
    /\ WF_vars(\E p \in DOMAIN pass : Restart(p))

(***************************************************************************)
(* Properties.                                                             *)
(***************************************************************************)
Failed(ps) == { j \in 1..Len(ps.outcomes) : ps.outcomes[j] = "Failed" }

\* C1: at most one drain is in flight per node: of two passes on the same
\* node, at most one issues any write (markDraining, cordon, eviction,
\* markDrained); the other one issues none.
C1_AtMostOneDrainInFlight ==
    \A p, q \in DOMAIN pass :
        p # q => ~(pass[p].did # {} /\ pass[q].did # {})

\* C2: resumability: once a process died after markDraining and before
\* markDrained, the node eventually reaches the Drained marker state.
C2_CrashedDrainResumes ==
    (\E p \in DOMAIN pass :
        /\ pass[p].pc = "crashed"
        /\ "markDraining" \in pass[p].did
        /\ "markDrained" \notin pass[p].did)
    ~> (MarkerState(annotations) = "Drained")

\* C3: in every reachable state of the node at most one of the markers
\* drain-in-progress and drained is present.
C3_AtMostOneMarker ==
    ~(annotations[InProgressKey] # Absent /\ annotations[DrainedKey] # Absent)

\* C4: a pass applies markDrained only if none of its evictions ended as
\* Failed, in forced mode as well as in fail-fast mode.
C4_DrainedOnlyOnFullSuccess ==
    \A p \in DOMAIN pass :
        "markDrained" \in pass[p].did => Failed(pass[p]) = {}

\* C5: exclude rules take priority: a pass whose fetched node matches an
\* exclude rule classifies it as not eligible and issues no write.
C5_ExcludeTakesPriority ==
    \A p \in DOMAIN pass :
        pass[p].excluded => ~pass[p].eligible /\ pass[p].did = {}

\* C6: in forced mode Drain attempts every candidate and, if an eviction
\* failed, returns an error: the pass does not go on to markNodeAsDrained but
\* returns with the drain error.
C6_ForcedDrainReturnsError ==
    \A p \in DOMAIN pass :
        ( /\ config.Drainer.Force
          /\ Len(pass[p].outcomes) = Len(pass[p].cands)
          /\ Failed(pass[p]) # {} )
        => /\ pass[p].pc = "returned"
           /\ pass[p].result.err = "failed to drain node"

\* C7: in fail-fast mode, when the eviction of the k-th candidate fails, Drain
\* returns an error at once: the k-1 earlier candidates were evicted (or were
\* already gone), the k-th is the only failure, and no request was issued
\* for a candidate after the k-th.
C7_FailFastStopsAtFirstFailure ==
    \A p \in DOMAIN pass :
        LET ps == pass[p]
            k  == Len(ps.outcomes)
        IN  (~config.Drainer.Force /\ ps.failedPods > 0)
            => /\ ps.pc = "returned"
               /\ ps.result.err = "failed to drain node"
               /\ k <= Len(ps.cands)
               /\ Failed(ps) = {k}
               /\ ps.evictedPods = k - 1
               /\ ps.failedPods = 1
               /\ \A j \in 1..(k - 1) : pods[ps.cands[j]].phase # "Running"

\* C7's case: three candidates, the second eviction fails, the third is
\* never attempted.
C7_Witness ==
    \E p \in DOMAIN pass :
        /\ ~config.Drainer.Force
        /\ pass[p].pc = "returned"
        /\ Len(pass[p].cands) = 3
        /\ pass[p].outcomes = <<"Evicted", "Failed">>
        /\ pass[p].evictedPods = 1

\* C8: a pass whose cordon or drain step failed after markDraining leaves the
\* node Draining (drain-in-progress kept, drained not set), reports the
\* error with a DrainFailed event and asks for a retry after five minutes.
C8_FailureLeavesDraining ==
    \A p \in DOMAIN pass :
        LET ps == pass[p]
        IN  ( /\ ps.pc = "returned"
              /\ ps.result.err \in {"failed to cordon node", "failed to drain node"} )
            => /\ ps.result.RequeueAfter = RequeueFailure
               /\ "markDraining" \in ps.did
               /\ "markDrained" \notin ps.did
               /\ MarkerState(annotations) = "Draining"
               /\ annotations[DrainedKey] = Absent
               /\ ps.events[Len(ps.events)] = "DrainFailed"

\* C8's case: the cordon patch failed after markDraining succeeded.
C8_Witness ==
    \E p \in DOMAIN pass :
        /\ pass[p].pc = "returned"
        /\ pass[p].result = Result(RequeueFailure, "failed to cordon node")
        /\ "markDraining" \in pass[p].did
        /\ annotations[InProgressKey] = "true"

\* C9: no pass ever panics; in particular Drain lists the pods when no pod
\* selector is supplied.
C9_NeverPanics ==
    \A p \in DOMAIN pass : pass[p].pc # "panicked"

\* C10, unconditional form: a pass that observes the node Draining, eligible
\* or not, issues no write and asks for a re-check after 30 seconds.
C10_DrainingAlwaysRequeues ==
    \A p \in DOMAIN pass :
        pass[p].observed = "Draining"
        => /\ pass[p].pc = "returned"
           /\ pass[p].did = {}
           /\ pass[p].result = Result(RequeueDraining, Nil)

\* C10, by eligibility: a pass that observes the node Draining issues no write; it
\* asks for a re-check after 30 seconds when the node is eligible, and
\* returns without a requeue when it is not.
C10_DrainingIsNoOp ==
    \A p \in DOMAIN pass :
        pass[p].observed = "Draining"
        => /\ pass[p].pc = "returned"
           /\ pass[p].did = {}
           /\ pass[p].events = <<>>
           /\ pass[p].result =
                Result(IF pass[p].eligible THEN RequeueDraining ELSE 0, Nil)

\* C10's case: an eligible node observed Draining, re-check requested.
C10_Witness ==
    \E p \in DOMAIN pass :
        /\ pass[p].pc = "returned"
        /\ pass[p].observed = "Draining"
        /\ pass[p].eligible
        /\ pass[p].result.RequeueAfter = RequeueDraining

\* C11: terminal states are absorbing: a pass that observes the node Drained
\* (eligible or not), or Idle and not eligible, returns at once with no write,
\* no audit event (hence no counter increment) and no requeue; and no pass
\* that fetched the node with a marker on it ever writes.
C11_TerminalStatesAbsorbing ==
    \A p \in DOMAIN pass :
        LET ps == pass[p]
        IN  /\ (ps.observed = "Drained" \/ (ps.observed = "Idle" /\ ~ps.eligible))
               => /\ ps.pc = "returned"
                  /\ ps.did = {}
                  /\ ps.events = <<>>
                  /\ ps.result = Result(0, Nil)
            /\ ps.observed \in {"Drained", "Draining"} => ps.did = {}

\* C11's case: a later pass finds the eligible node Drained and leaves it.
C11_Witness ==
    \E p \in DOMAIN pass :
        /\ pass[p].pc = "returned"
        /\ pass[p].observed = "Drained"
        /\ pass[p].eligible
        /\ annotations[DrainedKey] = "true"
        /\ ~queue[p]

\* C12: a pass whose context was cancelled during the eviction loop does not
\* go on to mark the node Drained, in forced mode as well as in fail-fast
\* mode.
C12_CancelledPassNotDrained ==
    \A p \in DOMAIN pass :
        pass[p].ctx = "cancelled" => "markDrained" \notin pass[p].did

\* C15: markDraining is conflict-aware: its patch is never applied to a node
\* that was modified after the pass fetched it (such a patch fails with a
\* conflict and the pass stops).
C15_MarkDrainingConflictAware ==
    \A p \in DOMAIN pass :
        "markDraining" \in pass[p].did => ~pass[p].stale

\* C16: markDraining and markDrained are partial updates: a step of either
\* changes only its own drain markers; the node's labels, conditions and
\* schedulability flag and every other marker stay as they are on the server.
C16_MarkersArePartialUpdates ==
    [][ \A p \in DOMAIN pass :
          /\ markNodeAsDraining(p)
             => /\ UNCHANGED <<labels, conditions, unschedulable>>
                /\ \A k \in MarkerKeys \ {InProgressKey, StartTimeKey} :
                      annotations'[k] = annotations[k]
          /\ markNodeAsDrained(p)
             => /\ UNCHANGED <<labels, conditions, unschedulable>>
                /\ \A k \in MarkerKeys \ {InProgressKey, DrainedKey,
                                          CompleteTimeKey, ReasonKey} :
                      annotations'[k] = annotations[k] ]_vars

\* C16's case: a pass patched drain-in-progress onto a node that another
\* pass had marked drained in the meantime; the drained markers are kept.
C16_Witness ==
    \E p \in DOMAIN pass :
        /\ pass[p].pc = "cordon"
        /\ pass[p].stale
        /\ annotations[InProgressKey] = "true"
        /\ annotations[DrainedKey] = "true"
        /\ annotations[ReasonKey] # Absent

\* C17: Draining -> Drained is one atomic update: the step of a pass that
\* applies markDrained takes the node, in that single step, to a state where
\* drain-in-progress is absent, drained is "true", the completion time is set
\* and drain-reason is the reason the classifier gave this pass.
C17_MarkDrainedIsOnePatch ==
    [][ \A p \in DOMAIN pass :
          ( /\ "markDrained" \notin pass[p].did
            /\ "markDrained" \in pass'[p].did )
          => /\ pass[p].pc = "markDrained"
             /\ annotations'[InProgressKey] = Absent
             /\ annotations'[DrainedKey] = "true"
             /\ annotations'[CompleteTimeKey] = Now
             /\ annotations'[ReasonKey] = pass[p].reason
             /\ MarkerState(annotations') = "Drained" ]_vars

\* C17's case: a pass went from Draining to Drained with the reason of a node
\* condition.
C17_Witness ==
    \E p \in DOMAIN pass :
        /\ pass[p].pc = "returned"
        /\ "markDrained" \in pass[p].did
        /\ annotations[InProgressKey] = Absent
        /\ annotations[DrainedKey] = "true"
        /\ annotations[StartTimeKey] = Now
        /\ annotations[ReasonKey] = "condition DiskPressure is True"

\* A step of pass p in which Drain made an eviction request.
evictionRequested(p) ==
    /\ pass[p].pc = "evict"
    /\ pass[p].ctx = "live"
    /\ Len(pass'[p].outcomes) = Len(pass[p].outcomes) + 1

\* C19, at the time of the request: no eviction request is issued for a pod
\* that has a deletion timestamp or is a mirror pod, nor, while forced mode is
\* off, for a pod with an emptyDir or hostPath volume.
C19_NoRequestForExcludedPod ==
    [][ \A p \in DOMAIN pass :
          evictionRequested(p)
          => LET pod == pods[pass[p].cands[pass[p].idx]]
             IN  /\ pod.phase # "Terminating"
                 /\ ~pod.mirror
                 /\ (~config.Drainer.Force => ~hasLocalStorage(pod)) ]_vars

\* C19, at the time of the listing: no pod that has a deletion timestamp when
\* Drain lists the pods, no mirror pod and, while forced mode is off, no pod
\* with an emptyDir or hostPath volume becomes a candidate; and a request is
\* only issued for a candidate, which is no mirror pod and, while forced mode
\* is off, has no such volume.
C19_ExcludedAtListing ==
    [][ \A p \in DOMAIN pass :
          /\ pass'[p].cands # pass[p].cands
             => \A j \in 1..Len(pass'[p].cands) :
                   LET pod == pods[pass'[p].cands[j]]
                   IN  /\ pod.phase = "Running"
                       /\ ~pod.mirror
                       /\ (~config.Drainer.Force => ~hasLocalStorage(pod))
          /\ evictionRequested(p)
             => LET pod == pods[pass[p].cands[pass[p].idx]]
                IN  /\ ~pod.mirror
                    /\ (~config.Drainer.Force => ~hasLocalStorage(pod)) ]_vars

\* C19's case: of a mirror pod, a pod deleted before the listing and a plain
\* pod, only the plain pod is a candidate and is evicted.
C19_Witness ==
    \E p \in DOMAIN pass :
        /\ Len(pods) = 3
        /\ pods[1].mirror /\ pods[1].phase = "Running"
        /\ pods[2].phase = "Terminating"
        /\ pass[p].cands = <<3>>
        /\ pass[p].outcomes = <<"Evicted">>

\* Pod i is owned by a DaemonSet.
daemonSetOwned(i) ==
    \E k \in 1..Len(pods[i].owners) : pods[i].owners[k] = "DaemonSet"

\* A step of pass p in which getPodsOnNode returned the filtered list.
listed(p) ==
    /\ pass[p].pc = "drain"
    /\ pass'[p].pc \in {"evict", "markDrained"}

\* C20, as an equivalence: a listed DaemonSet-owned pod is left out of the
\* candidates if and only if IgnoreDaemonSets is set.
C20_DaemonSetExcludedIffIgnored ==
    [][ \A p \in DOMAIN pass :
          listed(p)
          => \A i \in 1..Len(pods) :
                (daemonSetOwned(i) /\ pods[i].phase # "Gone")
                => ( (\A j \in 1..Len(pass'[p].cands) : pass'[p].cands[j] # i)
                     <=> config.Drainer.IgnoreDaemonSets ) ]_vars

\* C20, with the other rules: a listed DaemonSet-owned pod is left out of the
\* candidates if IgnoreDaemonSets is set; if it is not set, the pod is left
\* out exactly when it has a deletion timestamp, is a mirror pod, or has local
\* storage while forced mode is off.
C20_DaemonSetExcludedByFlagOrOtherRule ==
    [][ \A p \in DOMAIN pass :
          listed(p)
          => \A i \in 1..Len(pods) :
                (daemonSetOwned(i) /\ pods[i].phase # "Gone")
                => ( (\A j \in 1..Len(pass'[p].cands) : pass'[p].cands[j] # i)
                     <=> \/ config.Drainer.IgnoreDaemonSets
                         \/ pods[i].phase = "Terminating"
                         \/ pods[i].mirror
                         \/ (hasLocalStorage(pods[i]) /\ ~config.Drainer.Force) ) ]_vars

\* C20's case: with IgnoreDaemonSets off, a DaemonSet-owned pod without local
\* storage is a candidate.
C20_Witness ==
    \E p \in DOMAIN pass :
        /\ pass[p].pc = "evict"
        /\ ~config.Drainer.IgnoreDaemonSets
        /\ ~config.Drainer.Force
        /\ pods[1].owners = <<"ReplicaSet", "DaemonSet">>
        /\ pods[1].volumes = <<"persistentVolumeClaim">>
        /\ pass[p].cands = <<1>>

\* The calls among the first n of the caller that made a Patch request, and
\* those that recorded the event ev.
patchCalls(n) == { j \in 1..n : caller.calls[j].patch }
eventCalls(n, ev) == { j \in 1..n : caller.calls[j].event = ev }

\* C13: Cordon is idempotent: two successful calls in a row with the same
\* node object, schedulable when fetched, make exactly one Patch request and
\* record exactly one Cordoned event.
C13_CordonTwiceOnePatch ==
    ( /\ caller.node.held
      /\ ~caller.node.unschedulable
      /\ Len(caller.calls) >= 2
      /\ \A j \in 1..2 : caller.calls[j].op = "Cordon" /\ caller.calls[j].err = Nil )
    => /\ Cardinality(patchCalls(2)) = 1
       /\ Cardinality(eventCalls(2, "Cordoned")) = 1

\* C14: Cordon called with a node whose flag is already unschedulable, and
\* Uncordon called with a node whose flag is already schedulable, return nil
\* without a Patch request and without an audit event.
C14_NoOpWhenFlagMatches ==
    \A j \in 1..Len(caller.calls) :
        LET c == caller.calls[j]
        IN  ( \/ c.op = "Cordon" /\ caller.node.unschedulable
              \/ c.op = "Uncordon" /\ ~caller.node.unschedulable )
            => c = CallResult(c.op, FALSE, "none", Nil)

\* C14's case: the node was cordoned, fetched, and Cordon was then called
\* with it, after an Uncordon that did patch.
C14_Witness ==
    /\ caller.node.held
    /\ caller.node.unschedulable
    /\ Len(caller.calls) = 2
    /\ caller.calls[1] = CallResult("Uncordon", TRUE, "Uncordoned", Nil)
    /\ caller.calls[2] = CallResult("Cordon", FALSE, "none", Nil)

\* C18: the REST API mirrors the error taxonomy: every request is answered;
\* a request for a missing node gets 404 (500 if the Get failed for another
\* reason) and invokes no drainer operation; a
\* drain request for a node with drain-in-progress gets 409 (500 if the Get
\* failed) and makes no eviction request; a failure of the drainer, a failed
\* eviction included, gets 500; every other request gets 200.
C18_ApiMirrorsTaxonomy ==
    LET h == caller.http
        failure == h.failed > 0
    IN  h.op # "none"
        => /\ ~h.aborted
           /\ h.name # NodeName
              => /\ h.status \in {StatusNotFound, StatusInternalServerError}
                 /\ ~h.engine
           /\ (h.op = "drain" /\ h.draining)
              => /\ h.status \in {StatusConflict, StatusInternalServerError}
                 /\ ~h.engine
                 /\ h.requests = 0
           /\ failure => h.status = StatusInternalServerError
           /\ ( /\ h.name = NodeName
                /\ ~(h.op = "drain" /\ h.draining)
                /\ h.engine
                /\ ~failure ) => h.status = StatusOK


\* Pod i is among the candidates of ps.
candidate(ps, i) ==
    \E j \in 1..Len(ps.cands) : ps.cands[j] = i

\* C21: EvictLocalStoragePods governs pods with an emptyDir or hostPath
\* volume: when it is set, such a pod that no other rule excludes is a
\* candidate of the listing; when it is not set, such a pod is no candidate.
C21_LocalStorageFollowsSetting ==
    [][ \A p \in DOMAIN pass :
          listed(p)
          => \A i \in 1..Len(pods) :
                (hasLocalStorage(pods[i]) /\ pods[i].phase # "Gone")
                => IF config.DrainSettings.EvictLocalStoragePods
                   THEN ( /\ pods[i].phase = "Running"
                          /\ ~pods[i].mirror
                          /\ ~(daemonSetOwned(i) /\ config.Drainer.IgnoreDaemonSets) )
                        => candidate(pass'[p], i)
                   ELSE ~candidate(pass'[p], i) ]_vars


\* C22: an eviction request of pass p answered with not-found is counted as an
\* evicted pod and never as a failed one, and the loop goes on to the next
\* candidate or to the end of Drain, in forced and in fail-fast mode; a pass
\* whose answers were all not-found leaves Drain with zero failures.
C22_AlreadyGoneIsSuccess ==
    [][ \A p \in DOMAIN pass :
          ( /\ evictionRequested(p)
            /\ pass'[p].outcomes[Len(pass'[p].outcomes)] = "AlreadyGone" )
          => /\ pass'[p].failedPods = pass[p].failedPods
             /\ pass'[p].evictedPods = pass[p].evictedPods + 1
             /\ pass'[p].pc = IF pass[p].idx = Len(pass[p].cands)
                              THEN "markDrained" ELSE "evict"
             /\ (\A j \in 1..Len(pass'[p].outcomes) :
                    pass'[p].outcomes[j] = "AlreadyGone")
                => pass'[p].failedPods = 0 ]_vars

\* C22's case: in fail-fast mode both candidates were gone when their
\* eviction was requested, and Drain returned nil.
C22_Witness ==
    \E p \in DOMAIN pass :
        /\ ~config.Drainer.Force
        /\ pass[p].pc = "markDrained"
        /\ pass[p].outcomes = <<"AlreadyGone", "AlreadyGone">>
        /\ pass[p].failedPods = 0


\* Pod i is no candidate of a listing: it no longer exists, has a deletion
\* timestamp, is a mirror pod, is owned by a DaemonSet while those are
\* ignored, or has local storage while forced mode is off.
filteredOut(i) ==
    \/ pods[i].phase # "Running"
    \/ pods[i].mirror
    \/ (daemonSetOwned(i) /\ config.Drainer.IgnoreDaemonSets)
    \/ (hasLocalStorage(pods[i]) /\ ~config.Drainer.Force)

\* C23: when Drain lists a node that has no pods, or whose pods are all
\* filtered out, it issues no eviction request, records nothing and returns
\* no error; the pass goes on to markNodeAsDrained, and until it has done so
\* it issues no eviction request.
C23_ZeroCandidatesSucceeds ==
    [][ \A p \in DOMAIN pass :
          /\ (listed(p) /\ \A i \in 1..Len(pods) : filteredOut(i))
             => /\ pass'[p].pc = "markDrained"
                /\ pass'[p].cands = <<>>
                /\ pass'[p].outcomes = <<>>
                /\ pass'[p].events = pass[p].events
                /\ pass'[p].result = Result(0, Nil)
          /\ (pass[p].pc = "markDrained" /\ pass[p].cands = <<>> /\ pass'[p] # pass[p])
             => /\ pass'[p].outcomes = <<>>
                /\ \/ "markDrained" \in pass'[p].did
                   \/ pass'[p].result.err = "failed to mark node as drained" ]_vars

\* C23's case: a node whose only pods are DaemonSet pods, which are ignored,
\* was marked drained by a pass that requested no eviction.
C23_Witness ==
    \E p \in DOMAIN pass :
        /\ Len(pods) = 2
        /\ \A i \in 1..Len(pods) : daemonSetOwned(i) /\ pods[i].phase = "Running"
        /\ config.Drainer.IgnoreDaemonSets
        /\ pass[p].pc = "returned"
        /\ pass[p].outcomes = <<>>
        /\ "markDrained" \in pass[p].did
        /\ MarkerState(annotations) = "Drained"


(***************************************************************************)
(* ClassifySpec: one replica classifies a node once, for every rule set     *)
(* and every node up to the bounds: trigger rules with and without a value, *)
(* labels that are absent, empty or set, node conditions of every status    *)
(* and condition rules of every required status.                            *)
(***************************************************************************)
MaxRules == 2
MaxConds == 2

RuleValues == {"", "true"}
NodeLabelValues == {Absent, "", "true", "false"}
ConditionTypes == {"DiskPressure", "Ready"}
ConditionStatuses == {"True", "False"}

TriggerRuleLists ==
    SeqsUpTo({ LabelTrigger(k, v) : k \in LabelKeys, v \in RuleValues }, MaxRules)
NodeConditionLists ==
    SeqsUpTo({ NodeCondition(t, s) : t \in ConditionTypes, s \in ConditionStatuses },
             MaxConds)
ConditionRuleLists ==
    SeqsUpTo({ NodeCondition(t, s) : t \in ConditionTypes, s \in ConditionStatuses }, 1)
        \cup { <<NodeCondition("DiskPressure", "False"), NodeCondition("Ready", "True")>> }

InitClassify ==
    /\ config \in { [ Config(FALSE, FALSE, FALSE, FALSE, "everything")
                        EXCEPT !.LabelTriggers = lt, !.NodeConditions = nc ] :
                      lt \in TriggerRuleLists, nc \in ConditionRuleLists }
    /\ labels \in [ LabelKeys -> NodeLabelValues ]
    /\ conditions \in NodeConditionLists
    /\ unschedulable = FALSE
    /\ annotations = NoAnnotations
    /\ pods = <<>>
    /\ pass = [ p \in {"r1"} |-> IdlePass ]
    /\ queue = [ p \in {"r1"} |-> TRUE ]
    /\ caller = IdleCaller
    /\ mayFail = FALSE
    /\ configFile = config
    /\ watchEvent = NoEvent

NextClassify ==
    \/ \E p \in DOMAIN pass : Dequeue(p)
    \/ \E p \in DOMAIN pass : Reconcile(p)

ClassifySpec == InitClassify /\ [][NextClassify]_vars

\* The reference decision: the first trigger rule, in configured order, whose
\* key is on the node with a matching value (0 if none) ...
RECURSIVE firstTrigger(_, _, _)
firstTrigger(rules, lbls, i) ==
    IF i > Len(rules) THEN 0
    ELSE IF /\ lbls[rules[i].Key] # Absent
            /\ (rules[i].Value = "" \/ rules[i].Value = lbls[rules[i].Key])
    THEN i
    ELSE firstTrigger(rules, lbls, i + 1)

\* ... then the first condition of the node whose type is in the condition
\* rules and whose status is exactly True (0 if none).
RECURSIVE firstCondition(_, _, _)
firstCondition(rules, conds, j) ==
    IF j > Len(conds) THEN 0
    ELSE IF /\ conds[j].Status = "True"
            /\ conds[j].Type \in { rules[r].Type : r \in DOMAIN rules }
    THEN j
    ELSE firstCondition(rules, conds, j + 1)

referenceDecision(triggers, rules, lbls, conds) ==
    LET t == firstTrigger(triggers, lbls, 1)
        c == firstCondition(rules, conds, 1)
    IN  IF t > 0
        THEN [ ok |-> TRUE,
               reason |-> "trigger label " \o triggers[t].Key \o "="
                              \o lbls[triggers[t].Key] ]
        ELSE IF c > 0
        THEN [ ok |-> TRUE, reason |-> "condition " \o conds[c].Type \o " is True" ]
        ELSE [ ok |-> FALSE, reason |-> "no drain triggers found" ]

\* C24: for every node and rule set shouldDrainNode gives the reference
\* decision: the first matching trigger rule in configured order, with a
\* reason naming its key and the node's value; else a node condition whose
\* type is in the rules and whose status is True; else not eligible with
\* "no drain triggers found".  A pass that classified the node holds that
\* verdict, and the reason when it goes on to drain.
C24_ClassifierEqualsReference ==
    LET ref == referenceDecision(config.LabelTriggers, config.NodeConditions,
                                 labels, conditions)
    IN  /\ shouldDrainNode(config, labels, conditions) = ref
        /\ \A p \in DOMAIN pass :
              /\ pass[p].pc \in {"returned", "markDraining"} => pass[p].eligible = ref.ok
              /\ pass[p].pc = "markDraining" => pass[p].reason = ref.reason

\* C24's case: both trigger rules match the node and a configured condition
\* is True; the pass goes on with the reason of the first rule, which has no
\* value, and the node's value of its key.
C24_Witness ==
    \E p \in DOMAIN pass :
        /\ config.LabelTriggers = <<LabelTrigger("critical", ""),
                                    LabelTrigger("maintenance", "true")>>
        /\ labels["critical"] = "false"
        /\ labels["maintenance"] = "true"
        /\ conditions = <<NodeCondition("DiskPressure", "True")>>
        /\ config.NodeConditions = <<NodeCondition("DiskPressure", "True")>>
        /\ pass[p].pc = "markDraining"
        /\ pass[p].reason = "trigger label critical=false"


\* Condition rule r matches the node as the configuration describes it: the
\* node reports a condition of the rule's type with the rule's status.
ruleMatchesNode(rule, conds) ==
    \E j \in 1..Len(conds) :
        conds[j].Type = rule.Type /\ conds[j].Status = rule.Status

\* C25: on a node that no trigger label rule matches, a pass finds the node
\* eligible exactly when some condition rule (T, S) matches, i.e. the node
\* reports a condition of type T with status S, whatever S is.
C25_ConditionRuleUsesRequiredStatus ==
    (firstTrigger(config.LabelTriggers, labels, 1) = 0)
    => LET matched == \E r \in 1..Len(config.NodeConditions) :
                         ruleMatchesNode(config.NodeConditions[r], conditions)
       IN  \A p \in DOMAIN pass :
               pass[p].pc \in {"returned", "markDraining"}
               => pass[p].eligible = matched


(***************************************************************************)
(* ScenarioSpec: one replica runs one pass on an idle node that carries the *)
(* trigger label and no exclude label, with plain and DaemonSet-owned pods  *)
(* on it; DaemonSet pods are ignored, every cluster call succeeds and       *)
(* nobody else touches the node or its pods.  The drainer has the pod       *)
(* selector main gives it, or one that is set.                              *)
(***************************************************************************)
InitScenario ==
    /\ labels = [ NoLabels EXCEPT !["maintenance"] = "true" ]
    /\ conditions = <<NodeCondition("DiskPressure", "False")>>
    /\ unschedulable = FALSE
    /\ annotations = NoAnnotations
    /\ config \in { Config(skip, FALSE, FALSE, force, sel) :
                      skip \in BOOLEAN, force \in BOOLEAN,
                      sel \in {"nil", "everything"} }
    /\ pods \in SeqsUpTo({PlainPod, DaemonSetPod}, MaxPods)
    /\ pass = [ p \in {"r1"} |-> IdlePass ]
    /\ queue = [ p \in {"r1"} |-> TRUE ]
    /\ caller = IdleCaller
    /\ mayFail = FALSE
    /\ configFile = config
    /\ watchEvent = NoEvent

NextScenario ==
    \/ \E p \in DOMAIN pass : Dequeue(p)
    \/ \E p \in DOMAIN pass : Reconcile(p)
    \/ \E p \in DOMAIN pass : markNodeAsDraining(p)
    \/ \E p \in DOMAIN pass : Cordon(p)
    \/ \E p \in DOMAIN pass : getPodsOnNode(p)
    \/ \E p \in DOMAIN pass : evictPod(p)
    \/ \E p \in DOMAIN pass : markNodeAsDrained(p)

ScenarioSpec == InitScenario /\ [][NextScenario]_vars

\* The pods of the node that no DaemonSet owns.
plainPods == { i \in 1..Len(pods) : ~daemonSetOwned(i) }

\* C26: the pass on the idle, triggered node finds it eligible and does not
\* end before the node is Drained; when it has ended, it has issued exactly
\* one eviction request per plain pod, each one successful, none for a
\* DaemonSet pod, and the node is in marker state Drained.
C26_ScenarioEndsDrained ==
    \A p \in DOMAIN pass :
        pass[p].pc \in {"returned", "panicked"}
        => /\ pass[p].eligible
           /\ pass[p].pc = "returned"
           /\ pass[p].result = Result(0, Nil)
           /\ Len(pass[p].outcomes) = Cardinality(plainPods)
           /\ \A j \in 1..Len(pass[p].outcomes) : pass[p].outcomes[j] = "Evicted"
           /\ \A i \in 1..Len(pods) :
                 pods[i].phase = IF i \in plainPods THEN "Terminating" ELSE "Running"
           /\ MarkerState(annotations) = "Drained"


\* The positions in the audit trail of ps at which an event of evs was
\* recorded.
recorded(ps, evs) == { j \in 1..Len(ps.events) : ps.events[j] \in evs }

\* C27: a pass that started a drain and has returned recorded exactly one
\* DrainStarted event and exactly one terminal event: DrainCompleted if it
\* returned no error, DrainFailed if it returned one.
C27_OneStartOneTerminalEvent ==
    \A p \in DOMAIN pass :
        (pass[p].pc = "returned" /\ recorded(pass[p], {"DrainStarted"}) # {})
        => /\ Cardinality(recorded(pass[p], {"DrainStarted"})) = 1
           /\ Cardinality(recorded(pass[p], {"DrainCompleted", "DrainFailed"})) = 1
           /\ Cardinality(recorded(pass[p], {"DrainCompleted"}))
                 = IF pass[p].result.err = Nil THEN 1 ELSE 0


\* C28: the eviction counters track the outcomes: the increments a pass made
\* to PodsEvicted and PodsFailedToEvict equal the numbers of its successful
\* and of its failed evictions, so that after any sequence of passes the
\* counters equal the totals.
C28_EvictionCountersTrackOutcomes ==
    \A p \in DOMAIN pass :
        /\ pass[p].metrics.PodsEvicted = pass[p].evictedPods
        /\ pass[p].metrics.PodsFailedToEvict = pass[p].failedPods


(***************************************************************************)
(* ReloadSpec: the configuration file is edited while the process runs.    *)
(* main loads the file once (LoadConfig, GetConfig) and hands that copy to *)
(* the controller and, through DrainerConfig, to the drainer; WatchConfig  *)
(* is never called, so nothing in the process reads the file again.        *)
(***************************************************************************)
\* The configurations the file may hold: with and without the trigger rule,
\* evicting or ignoring DaemonSet pods.  The pod selector is not in the file.
ReloadConfigs(sel) ==
    { [ Config(FALSE, evictDS, FALSE, FALSE, sel) EXCEPT !.LabelTriggers = lt ] :
        evictDS \in BOOLEAN, lt \in {<<>>, DefaultLabelTriggers} }

\* An operator writes new rules and settings to the configuration file,
\* between two passes.
WriteConfigFile(c) ==
    /\ \A p \in DOMAIN pass : ~Running(p)
    /\ c # configFile
    /\ configFile' = c
    /\ UNCHANGED <<caller, mayFail, watchEvent, config, labels, conditions, unschedulable,
                   annotations, pods, queue, pass>>

InitReload ==
    /\ InitNode
    /\ config \in UNION { ReloadConfigs(sel) : sel \in {"nil", "everything"} }
    /\ configFile = config
    /\ watchEvent = NoEvent
    /\ pods \in SeqsUpTo({PlainPod, DaemonSetPod}, 1)
    /\ pass = [ p \in {"r1"} |-> IdlePass ]
    /\ queue = [ p \in {"r1"} |-> TRUE ]
    /\ caller = IdleCaller
    /\ mayFail = FALSE

NextReload ==
    \/ \E p \in DOMAIN pass : Dequeue(p)
    \/ \E p \in DOMAIN pass : Reconcile(p)
    \/ \E p \in DOMAIN pass : markNodeAsDraining(p)
    \/ \E p \in DOMAIN pass : Cordon(p)
    \/ \E p \in DOMAIN pass : getPodsOnNode(p)
    \/ \E p \in DOMAIN pass : evictPod(p)
    \/ \E p \in DOMAIN pass : markNodeAsDrained(p)
    \/ \E k \in LabelKeys, v \in LabelValues \cup {Absent} : SetLabel(k, v)
    \/ \E c \in ReloadConfigs(config.Drainer.PodSelector) : WriteConfigFile(c)

ReloadSpec == InitReload /\ [][NextReload]_vars

\* C29: a pass that starts after the configuration file was changed
\* classifies the node with the trigger and condition rules of the file and
\* filters the pods with the drain settings of the file.
C29_PassesUseReloadedConfig ==
    [][ \A p \in DOMAIN pass :
          /\ (pass[p].pc = "reconcile" /\ pass'[p].pc # "reconcile")
             => pass'[p].eligible = shouldDrainNode(configFile, labels, conditions).ok
          /\ listed(p)
             => pass'[p].cands = filteredPods(configFile.Drainer, pods) ]_vars


\* C30: the order of the steps of a pass.  An eviction request is issued
\* only after markNodeAsDraining succeeded and, unless SkipCordon is set,
\* Cordon returned success (it patched the node, or found its node object
\* unschedulable already).  markNodeAsDrained is applied only after Drain
\* returned without error: every candidate was asked for, and in fail-fast
\* mode none of the requests failed.  markNodeAsDraining is attempted only
\* by a pass whose classifier verdict was eligible and that observed the
\* node neither Draining nor Drained.
C30_StepsInOrder ==
    [][ \A p \in DOMAIN pass :
          /\ evictionRequested(p)
             => /\ "markDraining" \in pass[p].did
                /\ \/ config.DrainSettings.SkipCordon
                   \/ "cordon" \in pass[p].did
                   \/ pass[p].node.unschedulable
          /\ ("markDrained" \in pass'[p].did /\ "markDrained" \notin pass[p].did)
             => /\ "markDraining" \in pass[p].did
                /\ Len(pass[p].outcomes) = Len(pass[p].cands)
                /\ (~config.Drainer.Force => Failed(pass[p]) = {})
          /\ (pass[p].pc = "markDraining" /\ pass'[p] # pass[p])
             => /\ pass[p].eligible
                /\ pass[p].observed = "Idle"
                /\ pass[p].did = {} ]_vars

\* C30's case: a pass went through every step: it marked the node draining,
\* cordoned it, evicted its pod and marked it drained.
C30_Witness ==
    \E p \in DOMAIN pass :
        /\ ~config.DrainSettings.SkipCordon
        /\ pass[p].pc = "returned"
        /\ pass[p].eligible
        /\ pass[p].observed = "Idle"
        /\ pass[p].did = {"markDraining", "cordon", "evict", "markDrained"}
        /\ pass[p].outcomes = <<"Evicted">>


\* A step of pass p in which markNodeAsDraining was attempted and its Patch
\* failed.
markDrainingFailed(p) ==
    /\ pass[p].pc = "markDraining"
    /\ pass'[p].pc = "returned"

\* C31: when the Patch of markNodeAsDraining fails, the pass ends there: it
\* has cordoned nothing and requested no eviction, the node's markers and its
\* unschedulable flag are what they were, which is Idle and schedulable, and
\* the pass reports the failure: it returns the error with the 5-minute
\* requeue, records DrainStarted and DrainFailed and nothing else, counts one
\* failed drain, and its key is queued again.
C31_MarkDrainingFailureAborts ==
    [][ \A p \in DOMAIN pass :
          markDrainingFailed(p)
          => /\ annotations' = annotations
             /\ unschedulable' = unschedulable
             /\ pods' = pods
             /\ MarkerState(annotations') = "Idle"
             /\ pass'[p].did = {}
             /\ pass'[p].outcomes = <<>>
             /\ pass'[p].result = Result(RequeueFailure, "failed to mark node as draining")
             /\ pass'[p].events = <<"DrainStarted", "DrainFailed">>
             /\ pass'[p].metrics.DrainOperationsFailed = 1
             /\ pass'[p].metrics.DrainOperationsCompleted = 0
             /\ queue'[p] ]_vars

\* C31's case: a pass returned after its markNodeAsDraining failed, on a node
\* with pods that is still Idle and schedulable.
C31_Witness ==
    \E p \in DOMAIN pass :
        /\ pass[p].pc = "returned"
        /\ pass[p].result.err = "failed to mark node as draining"
        /\ Len(pods) > 0
        /\ MarkerState(annotations) = "Idle"
        /\ ~unschedulable


\* C32: with SkipCordon set no pass issues the cordon patch, and the node's
\* unschedulable flag stays what it was before the passes, schedulable; a
\* pass still marks the node draining, evicts and marks it drained.
C32_SkipCordonLeavesFlag ==
    config.DrainSettings.SkipCordon
    => /\ ~unschedulable
       /\ \A p \in DOMAIN pass :
             /\ "cordon" \notin pass[p].did
             /\ recorded(pass[p], {"Cordoned", "CordonFailed"}) = {}

\* C32's case: with SkipCordon set a pass marked the node draining, evicted
\* its pod and marked it drained; the node is Drained and schedulable.
C32_Witness ==
    \E p \in DOMAIN pass :
        /\ config.DrainSettings.SkipCordon
        /\ pass[p].pc = "returned"
        /\ pass[p].did = {"markDraining", "evict", "markDrained"}
        /\ pass[p].outcomes = <<"Evicted">>
        /\ MarkerState(annotations) = "Drained"
        /\ ~unschedulable


(***************************************************************************)
(* WatchSpec: the node informer delivers events for the node and the       *)
(* event filter of SetupWithManager decides whether the node's key is      *)
(* added to the work queue.  The informer starts with a create event for   *)
(* the node; labels, conditions, markers and the unschedulable flag are    *)
(* then updated by others, until the node is deleted.                      *)
(***************************************************************************)
Node(lbls, conds, ann, flag) ==
    [ labels |-> lbls, conditions |-> conds, annotations |-> ann, unschedulable |-> flag ]

\* nodePredicate.CreateFunc
CreateFunc(cfg, obj) == shouldWatchNode(cfg, obj.labels)

\* Mutant: every update of the node is passed on to shouldWatchNode.
UpdateFunc_anyChange(cfg, old, new) == shouldWatchNode(cfg, new.labels)

\* nodePredicate.UpdateFunc
UpdateFunc(cfg, old, new) ==
    IF old.labels # new.labels THEN shouldWatchNode(cfg, new.labels)
    ELSE IF old.conditions # new.conditions THEN shouldWatchNode(cfg, new.labels)
    ELSE FALSE

\* nodePredicate.DeleteFunc and GenericFunc
DeleteFunc(cfg, obj) == FALSE
GenericFunc(cfg, obj) == FALSE

\* The node as it is on the API server.
currentNode == Node(labels, conditions, annotations, unschedulable)

\* The event of the given kind is delivered; the key is added to the queue of
\* the controller if the filter says so.
deliver(kind, passes) ==
    /\ watchEvent' = kind
    /\ queue' = [ p \in DOMAIN queue |-> queue[p] \/ passes ]
    /\ UNCHANGED <<caller, mayFail, configFile, config, pods, pass>>

\* The informer lists the nodes when the controller starts.
CreateEvent ==
    /\ watchEvent = NoEvent
    /\ deliver("create", CreateFunc(config, currentNode))
    /\ UNCHANGED nodeVars

\* Somebody updates the node: a label, the status of its condition, the
\* drain-in-progress marker or the unschedulable flag.
UpdateEvent(new) ==
    /\ watchEvent \notin {NoEvent, "delete"}
    /\ new # currentNode
    /\ labels' = new.labels
    /\ conditions' = new.conditions
    /\ annotations' = new.annotations
    /\ unschedulable' = new.unschedulable
    /\ deliver("update", UpdateFunc(config, currentNode, new))

\* The updates of the node that are delivered: one field changes at a time.
Updates ==
    { [ currentNode EXCEPT !.labels[k] = v ] :
        k \in LabelKeys, v \in LabelValues \cup {Absent} }
    \cup { [ currentNode EXCEPT !.conditions[1].Status = s ] : s \in {"True", "False"} }
    \cup { [ currentNode EXCEPT !.annotations[InProgressKey] = v ] : v \in {"true", Absent} }
    \cup { [ currentNode EXCEPT !.unschedulable = f ] : f \in BOOLEAN }

\* The node is deleted.
DeleteEvent ==
    /\ watchEvent \notin {NoEvent, "delete"}
    /\ deliver("delete", DeleteFunc(config, currentNode))
    /\ UNCHANGED nodeVars

\* A generic event for the node.
GenericEvent ==
    /\ watchEvent \notin {NoEvent, "delete"}
    /\ deliver("generic", GenericFunc(config, currentNode))
    /\ UNCHANGED nodeVars

InitWatch ==
    /\ labels \in [ LabelKeys -> LabelValues \cup {Absent} ]
    /\ conditions = <<NodeCondition("DiskPressure", "False")>>
    /\ unschedulable = FALSE
    /\ annotations = NoAnnotations
    /\ config = Config(FALSE, FALSE, FALSE, FALSE, "nil")
    /\ configFile = config
    /\ watchEvent = NoEvent
    /\ pods = <<>>
    /\ pass = [ p \in {"r1"} |-> IdlePass ]
    /\ queue = [ p \in {"r1"} |-> FALSE ]
    /\ caller = IdleCaller
    /\ mayFail = FALSE

NextWatch ==
    \/ CreateEvent
    \/ \E new \in Updates : UpdateEvent(new)
    \/ DeleteEvent
    \/ GenericEvent
    \/ \E p \in DOMAIN pass : Dequeue(p)

WatchSpec == InitWatch /\ [][NextWatch]_vars

\* C33: the key of the node is added to the work queue only on a create
\* event, or on an update event whose old and new object differ in labels or
\* conditions, and only if the new object matches no exclude rule; delete and
\* generic events and updates of markers or the unschedulable flag alone
\* never add it.
C33_WatchPredicate ==
    [][ \A p \in DOMAIN queue :
          (queue'[p] /\ ~queue[p])
          => /\ \/ watchEvent' = "create"
                \/ /\ watchEvent' = "update"
                   /\ (labels' # labels \/ conditions' # conditions)
             /\ \A i \in 1..Len(config.ExcludeLabels) :
                   ~labelMatches(config.ExcludeLabels[i], labels') ]_vars

\* C33's case: an update that changed only the drain-in-progress marker was
\* delivered while the key was not queued, and the key is still not queued.
C33_Witness ==
    /\ watchEvent = "update"
    /\ annotations[InProgressKey] = "true"
    /\ labels["maintenance"] = "true"
    /\ labels["critical"] = Absent
    /\ \E p \in DOMAIN pass : pass[p].pc = "reconcile" /\ ~queue[p]


\* The place of a step in performDrain.
stepRank(pc) ==
    CASE pc = "markDraining" -> 1
      [] pc = "cordon"       -> 2
      [] pc = "drain"        -> 3
      [] pc = "evict"        -> 4
      [] pc = "markDrained"  -> 5
      [] OTHER               -> 6

\* C34: no inner retry.  Whatever a call of a pass answers, the pass goes on
\* to a later step or returns: markNodeAsDraining, Cordon and
\* markNodeAsDrained are each attempted at most once, and the eviction loop
\* moves on to the next candidate after every request, so that the requests
\* of a pass go to different pods and are no more than its candidates.
C34_NoInnerRetry ==
    [][ \A p \in DOMAIN pass :
          (Running(p) /\ pass[p].pc # "reconcile" /\ pass'[p] # pass[p])
          => /\ \/ stepRank(pass'[p].pc) > stepRank(pass[p].pc)
                \/ /\ pass[p].pc = "evict" /\ pass'[p].pc = "evict"
                   /\ pass'[p].idx = pass[p].idx + 1
                   /\ Len(pass'[p].outcomes) = Len(pass[p].outcomes) + 1
             /\ Len(pass'[p].outcomes) <= Len(pass'[p].cands)
             /\ \A j, k \in 1..Len(pass'[p].outcomes) :
                   j # k => pass'[p].cands[j] # pass'[p].cands[k] ]_vars

\* C34's case: in forced mode both eviction requests of a pass failed; each
\* pod was asked for once and the pass went on to the end.
C34_Witness ==
    \E p \in DOMAIN pass :
        /\ config.Drainer.Force
        /\ pass[p].pc = "returned"
        /\ pass[p].cands = <<1, 2>>
        /\ pass[p].outcomes = <<"Failed", "Failed">>
        /\ "markDrained" \in pass[p].did


\* C35: a pass that observed drain-in-progress when it fetched the node
\* writes nothing: it does not cordon, evict or mark the node; a pass that
\* applies markDrained has performed markDraining itself; and a node in
\* marker state Draining leaves that state only by the markDrained of a pass
\* that performed markDraining itself, never by a pass that started later.
C35_OnlyTheMarkingPassCompletes ==
    [][ \A p \in DOMAIN pass :
          /\ pass'[p].observed = "Draining"
             => /\ pass'[p].did = {}
                /\ pass'[p].outcomes = <<>>
                /\ pass'[p].events = <<>>
          /\ "markDrained" \in pass'[p].did => "markDraining" \in pass'[p].did
          /\ ( /\ MarkerState(annotations) = "Draining"
               /\ MarkerState(annotations') # "Draining" )
             => \E q \in DOMAIN pass :
                   /\ pass[q].pc = "markDrained"
                   /\ "markDraining" \in pass[q].did
                   /\ pass[q].observed = "Idle"
                   /\ "markDrained" \in pass'[q].did ]_vars

\* C35's case: a pass that marked the node draining has failed or panicked,
\* and a later pass observed the marker and returned without a write; the
\* node is still Draining.
C35_Witness ==
    \E p, q \in DOMAIN pass :
        /\ p # q
        /\ pass[q].pc \in {"returned", "panicked"}
        /\ "markDraining" \in pass[q].did
        /\ "markDrained" \notin pass[q].did
        /\ pass[p].pc = "returned"
        /\ pass[p].observed = "Draining"
        /\ pass[p].did = {}
        /\ pass[p].result = Result(RequeueDraining, Nil)
        /\ MarkerState(annotations) = "Draining"


\* A step of the REST API's drain handler: its Get, its List, or one of its
\* eviction requests.
drainHandlerStep ==
    /\ caller'.handler # caller.handler \/ caller'.http # caller.http
    /\ \/ caller.handler.op = "drain"
       \/ caller'.handler.op = "drain"
       \/ caller.handler.pc = "idle" /\ caller'.http.op = "drain"

\* C36: a drain request through the REST API leaves the node object as it
\* is: labels, conditions, markers and the unschedulable flag are unchanged;
\* all it changes in the cluster is that pods it evicted have got their
\* deletion timestamp.
C36_ManualDrainLeavesNode ==
    [][ drainHandlerStep
        => /\ annotations' = annotations
           /\ unschedulable' = unschedulable
           /\ labels' = labels
           /\ conditions' = conditions
           /\ Len(pods') = Len(pods)
           /\ \A i \in 1..Len(pods) :
                 \/ pods'[i] = pods[i]
                 \/ /\ pods[i].phase = "Running"
                    /\ pods'[i] = [ pods[i] EXCEPT !.phase = "Terminating" ] ]_vars

\* C36's case: a drain request was answered with 200 after two eviction
\* requests; both pods are terminating and the node is Idle and schedulable.
C36_Witness ==
    /\ caller.http.op = "drain"
    /\ caller.http.status = StatusOK
    /\ caller.http.requests = 2
    /\ Len(pods) = 2
    /\ \A i \in 1..Len(pods) : pods[i].phase = "Terminating"
    /\ MarkerState(annotations) = "Idle"
    /\ ~unschedulable


(***************************************************************************)
(* CordonSpec: one replica drains a node that carries the trigger label    *)
(* and is schedulable or was cordoned before, with and without SkipCordon, *)
(* in forced and in fail-fast mode; calls may fail, and nobody else        *)
(* changes the unschedulable flag.                                         *)
(***************************************************************************)
InitCordon ==
    /\ labels = [ NoLabels EXCEPT !["maintenance"] = "true" ]
    /\ conditions = <<NodeCondition("DiskPressure", "False")>>
    /\ unschedulable \in BOOLEAN
    /\ annotations = NoAnnotations
    /\ config \in { Config(skip, FALSE, FALSE, force, "everything") :
                      skip \in BOOLEAN, force \in BOOLEAN }
    /\ configFile = config
    /\ watchEvent = NoEvent
    /\ pods \in SeqsUpTo({PlainPod, DaemonSetPod}, MaxPods - 1)
    /\ pass = [ p \in {"r1"} |-> IdlePass ]
    /\ queue = [ p \in {"r1"} |-> TRUE ]
    /\ caller = IdleCaller
    /\ mayFail = TRUE

CordonSpec == InitCordon /\ [][NextDrain]_vars

\* C37: with SkipCordon off, and nobody else changing the unschedulable
\* flag, the node is unschedulable whenever a pass is in Drain or about to
\* apply markNodeAsDrained, so every eviction request of the pass and its
\* markDrained are made on an unschedulable node, and the node still is
\* unschedulable once the pass has evicted or marked it drained.
C37_DrainedNodeIsCordoned ==
    ~config.DrainSettings.SkipCordon
    => \A p \in DOMAIN pass :
          ( \/ pass[p].pc \in {"drain", "evict", "markDrained"}
            \/ "evict" \in pass[p].did
            \/ "markDrained" \in pass[p].did )
          => unschedulable

\* C37's case: with SkipCordon off a pass cordoned a schedulable node,
\* evicted its pods and marked it drained; the node is unschedulable.
C37_Witness ==
    \E p \in DOMAIN pass :
        /\ ~config.DrainSettings.SkipCordon
        /\ pass[p].pc = "returned"
        /\ "cordon" \in pass[p].did
        /\ "markDrained" \in pass[p].did
        /\ pass[p].outcomes = <<"Evicted", "Evicted">>
        /\ MarkerState(annotations) = "Drained"
        /\ unschedulable

====
